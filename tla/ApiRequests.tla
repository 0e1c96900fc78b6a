------------------------------ MODULE ApiRequests ------------------------------
(***************************************************************************)
(* A request to the HTTP API from its caller and back: the command line    *)
(* client (cli/) or another HTTP client, the credential, the fixed-window  *)
(* limit of rate_limits.py kept in a shared cache, the route of            *)
(* api/views.py, the answer, and the exit code it becomes.  What the       *)
(* services behind the routes do is the subject of other modules: here a   *)
(* service ends in any way it can end.                                     *)
(***************************************************************************)
EXTENDS Integers, FiniteSets

CONSTANTS
    Calls,       \* requests made with one API key
    RateLimit,   \* API_V1_RATE_LIMIT
    RateWindow,  \* API_V1_RATE_WINDOW_SECONDS
    MaxSeconds   \* bound: length of a behaviour

ASSUME RequestAssumption ==
    /\ IsFiniteSet(Calls) /\ {RateLimit, RateWindow} \subseteq Nat \ {0} /\ MaxSeconds \in Nat

VARIABLES
    second,   \* time.time()
    counter,  \* the cache: of each window, the count and when its key expires
    call,     \* each request, on the server and at its caller
    granted,  \* history: requests of a window that were let through within it
    report    \* history: how the step just taken ended a request, if it did

apiVars == <<second, counter, call, granted, report>>

WindowOf(t) == t \div RateWindow
Windows == 0 .. WindowOf(MaxSeconds)
NoKey == [count |-> 0, expires |-> 0]
NoAnswer == [status |-> 0, retryable |-> FALSE, why |-> "none"]
NoCall == [at |-> "idle", by |-> "cli", now |-> 0, answer |-> NoAnswer]
NoReport == [why |-> "none", exit |-> "none", retry |-> FALSE]
ApiInit ==
    /\ second = 0 /\ counter = [w \in Windows |-> NoKey]
    /\ call = [c \in Calls |-> NoCall] /\ granted = [w \in Windows |-> {}]
    /\ report = NoReport

\* The caller is done.
Over(c, why, exit, retry) ==
    /\ call' = [call EXCEPT ![c] = [NoCall EXCEPT !.at = "over"]]
    /\ report' = [why |-> why, exit |-> exit, retry |-> retry]

-----------------------------------------------------------------------------
(* The command line client before it sends.                                *)

\* validateCommon and parseBaseURL; configuredClient asks for the key as well.
BaseProblems == {"no_api_base", "api_base_not_absolute", "api_base_with_credentials",
                 "api_base_not_https", "bad_timeout"}
ClientProblems == BaseProblems \cup {"no_api_key"}

\* What each command finds wrong before it does its work; the two that ask the
\* server, and the texts that are shown without it.
Commands == [
    search  |-> {"bad_flag", "no_query", "query_too_long", "bad_limit", "language_too_long",
                 "too_many_domains"} \cup ClientProblems,
    auth    |-> {"no_subcommand", "bad_flag", "operands"} \cup ClientProblems,
    config  |-> {"no_subcommand", "bad_flag", "operands"} \cup BaseProblems,
    version |-> {"bad_flag", "operands"},
    unknown |-> {"unknown_command"}]
Remote == {"search", "auth"}
Shown == {"help", "shown"}
CommandLines == UNION {Commands[k] : k \in DOMAIN Commands}

\* The exit of a command that does not reach the server.
LocalExit(problem) ==
    CASE problem \in Shown      -> "ok"
      [] problem = "no_api_key" -> "auth"
      [] OTHER                  -> "usage"

Run(c) ==
    /\ call[c].at = "idle"
    /\ \E k \in DOMAIN Commands :
        \/ /\ k \in Remote /\ call' = [call EXCEPT ![c].at = "sent"] /\ report' = NoReport
        \/ \E why \in Commands[k] : Over(c, why, LocalExit(why), FALSE)
        \/ k # "unknown" /\ Over(c, "help", LocalExit("help"), FALSE)
        \/ k \in {"config", "version"} /\ Over(c, "shown", LocalExit("shown"), FALSE)
    /\ UNCHANGED <<second, counter, granted>>

\* Another HTTP client, on any route.
Post(c) ==
    /\ call[c].at = "idle"
    /\ call' = [call EXCEPT ![c].at = "sent", ![c].by = "http"] /\ report' = NoReport
    /\ UNCHANGED <<second, counter, granted>>

-----------------------------------------------------------------------------
(* The server.                                                             *)

\* The answer; what another HTTP client makes of it is its own affair.
Answered(c, status, retryable, why) ==
    \/ call[c].by = "http" /\ Over(c, why, "none", retryable)
    \/ call[c].by = "gone" /\ Over(c, "none", "none", FALSE)
    \/ /\ call[c].by = "cli" /\ report' = NoReport
       /\ call' = [call EXCEPT
            ![c] = [NoCall EXCEPT !.at = "answered",
                    !.answer = [status |-> status, retryable |-> retryable, why |-> why]]]

\* The credential, then the schema of the body, then the limiter reads the time;
\* the unversioned routes have none.
Authenticate(c) ==
    /\ call[c].at = "sent"
    /\ \/ Answered(c, 401, FALSE, "credential")
       \/ Answered(c, 422, FALSE, "schema")
       \/ call' = [call EXCEPT ![c].at = "add", ![c].now = second] /\ report' = NoReport
       \/ /\ call[c].by = "http" /\ call' = [call EXCEPT ![c].at = "route"] /\ report' = NoReport
    /\ UNCHANGED <<second, counter, granted>>

\* The cache is down, or the second incr also met an expired key.
LimiterFails(c) ==
    /\ call[c].at \in {"add", "incr", "readd", "reincr"}
    /\ Answered(c, 503, TRUE, "limiter")
    /\ UNCHANGED <<second, counter, granted>>

\* Mutant: the key expires before its window does.
KeyTimeoutMutant == RateWindow - 1

\* The key outlives its window by a second.
KeyTimeout == RateWindow + 1

\* The count a request got decides whether the route runs.
Count(c, n) ==
    LET w == WindowOf(call[c].now)
    IN  /\ IF n <= RateLimit THEN call' = [call EXCEPT ![c].at = "route", ![c].now = 0] /\ report' = NoReport
           ELSE Answered(c, 429, TRUE, "limit")
        /\ granted' = IF n <= RateLimit /\ WindowOf(second) = w
                      THEN [granted EXCEPT ![w] = @ \cup {c}] ELSE granted

\* cache.add and cache.incr are atomic, each on its own.
KeyLives(w) == counter[w].count > 0 /\ second < counter[w].expires
CacheAdd(c) ==
    LET w == WindowOf(call[c].now)
    IN  /\ call[c].at \in {"add", "readd"}
        /\ \/ /\ ~KeyLives(w)
              /\ counter' = [counter EXCEPT ![w] = [count |-> 1, expires |-> second + KeyTimeout]]
              /\ Count(c, 1)
           \/ /\ KeyLives(w)
              /\ call' = [call EXCEPT ![c].at = IF @ = "add" THEN "incr" ELSE "reincr"]
              /\ report' = NoReport /\ UNCHANGED <<counter, granted>>
        /\ UNCHANGED second
CacheIncr(c) ==
    LET w == WindowOf(call[c].now)
    IN  /\ call[c].at \in {"incr", "reincr"}
        /\ \/ /\ KeyLives(w)
              /\ counter' = [counter EXCEPT ![w].count = @ + 1]
              /\ Count(c, counter[w].count + 1)
           \/ /\ ~KeyLives(w) /\ call[c].at = "incr"
              /\ call' = [call EXCEPT ![c].at = "readd"]
              /\ report' = NoReport /\ UNCHANGED <<counter, granted>>
        /\ UNCHANGED second

\* get_v1_account, list_v1_projects, get_v1_project.
ReadRoute(c) ==
    /\ call[c].at = "route"
    /\ \/ Answered(c, 200, FALSE, "served")
       \/ call[c].by = "http" /\ Answered(c, 404, FALSE, "not_found")
    /\ UNCHANGED <<second, counter, granted>>

\* create_v1_project: what SitemapSubmissionService.submit raised.
SubmitEnds == {"created", "account", "conflict", "temporary", "refused", "invalid"}
SubmitStatus(end) ==
    CASE end = "created"   -> 201
      [] end = "account"   -> 403
      [] end = "conflict"  -> 409
      [] end = "temporary" -> 503
      [] end = "refused"   -> 422
      [] end = "invalid"   -> 400
SubmitRoute(c) ==
    /\ call[c].at = "route" /\ call[c].by = "http"
    /\ \E end \in SubmitEnds :
        Answered(c, SubmitStatus(end), end = "temporary", IF end = "created" THEN "served" ELSE end)
    /\ UNCHANGED <<second, counter, granted>>

\* search_v1: the codes of SearchError, those a retry may help among them.
SearchEnds ==
    [code : {"served", "account", "input", "search_index_invalid", "query_embedding_invalid",
             "internal_error"}, retryable : {FALSE}]
    \cup [code : {"search_index_unavailable"}, retryable : {TRUE}]
    \cup [code : {"query_embedding_unavailable"}, retryable : BOOLEAN]
SearchStatus(code) ==
    CASE code = "served"         -> 200
      [] code = "account"        -> 403
      [] code = "input"          -> 422
      [] code = "internal_error" -> 500
      [] OTHER                   -> 503
SearchRoute(c) ==
    /\ call[c].at = "route"
    /\ \E end \in SearchEnds : Answered(c, SearchStatus(end.code), end.retryable, end.code)
    /\ UNCHANGED <<second, counter, granted>>

-----------------------------------------------------------------------------
(* The answer at the caller.                                               *)

\* classifyTransportError: a timeout or an interrupt ends the wait of the client
\* and not the request, unless it was never received.
NoResponse(c) ==
    /\ call[c].at \notin {"idle", "over"} /\ call[c].by = "cli"
    /\ \E exit \in {"network", "interrupted"} :
        \/ call[c].at \in {"sent", "answered"} /\ Over(c, "no_response", exit, FALSE)
        \/ /\ call[c].at # "answered" /\ call' = [call EXCEPT ![c].by = "gone"]
           /\ report' = [NoReport EXCEPT !.why = "no_response", !.exit = exit]
    /\ UNCHANGED <<second, counter, granted>>

\* Mutant: a refused account counts as a failure of the server.
KindOfMutant(status) ==
    CASE status \in {400, 422} -> "validation"
      [] status = 401          -> "authentication"
      [] OTHER                 -> "server"

\* classifyStatusError.
KindOf(status) ==
    CASE status \in {400, 422} -> "validation"
      [] status \in {401, 403} -> "authentication"
      [] OTHER                 -> "server"

\* classifyClientError.
ExitOfKind(kind) ==
    CASE kind = "validation"     -> "usage"
      [] kind = "authentication" -> "auth"
      [] OTHER                   -> "server"
ExitOf(status) == IF status \in 200 .. 299 THEN "ok" ELSE ExitOfKind(KindOf(status))

\* do, Search and CheckAuth: a success must be bounded JSON of contract v1; the
\* retry advice is the server's.
Receive(c) ==
    /\ call[c].at = "answered"
    /\ \/ Over(c, call[c].answer.why, ExitOf(call[c].answer.status), call[c].answer.retryable)
       \/ Over(c, "protocol", "server", FALSE)
    /\ UNCHANGED <<second, counter, granted>>

Second == /\ second < MaxSeconds /\ second' = second + 1 /\ report' = NoReport
          /\ UNCHANGED <<counter, call, granted>>

ApiNext ==
    \/ Second
    \/ \E c \in Calls :
        \/ Run(c) \/ Post(c) \/ Authenticate(c) \/ LimiterFails(c) \/ CacheAdd(c) \/ CacheIncr(c)
        \/ ReadRoute(c) \/ SubmitRoute(c) \/ SearchRoute(c) \/ NoResponse(c) \/ Receive(c)

ApiSpec == ApiInit /\ [][ApiNext]_apiVars

-----------------------------------------------------------------------------
(* Properties.                                                             *)

\* The types of the requests.
ApiTypeOK ==
    /\ \A w \in Windows : counter[w].count \in 0 .. Cardinality(Calls)
    /\ \A c \in Calls : /\ call[c].now \in 0 .. second
                        /\ call[c].at = "answered" <=> call[c].answer # NoAnswer

\* Whatever the interleaving of adds, increments and expiring keys, a key is
\* let through at most RateLimit times within one window.
WindowBudget == \A w \in Windows : Cardinality(granted[w]) <= RateLimit

\* A script can act on the exit code alone: 0 means results, 2 means the request
\* must change, 3 the credential or the account, 4 that no answer came; and a
\* retry is only advised for what may pass.
InputCauses == (CommandLines \ {"no_api_key"}) \cup {"schema", "input"}
RefusedCauses == {"credential", "account", "no_api_key"}
PassingCauses ==
    {"limiter", "limit", "temporary", "search_index_unavailable", "query_embedding_unavailable"}
ExitTellsCause ==
    /\ report.exit = "ok" => report.why \in Shown \cup {"served"}
    /\ report.exit = "usage" => report.why \in InputCauses
    /\ report.exit # "none" => (report.exit = "auth" <=> report.why \in RefusedCauses)
    /\ report.exit \in {"network", "interrupted"} => report.why = "no_response"
    /\ report.retry => report.why \in PassingCauses

=============================================================================
