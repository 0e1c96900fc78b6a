------------------------------ MODULE SafeFetch ------------------------------
(***************************************************************************)
(* The crawler's HTTP client, apps/core/safe_fetch.py: calls of            *)
(* SafeFetchClient.fetch on one client, which share its per-host           *)
(* semaphores and pacing.  A step is what a call does between two points   *)
(* where it may block: the resolver, the semaphore, the timing lock, the   *)
(* sleep, the connection, one read of the body.  A host's DNS answer and   *)
(* the response are chosen anew every time they are asked for.             *)
(***************************************************************************)
EXTENDS Integers, FiniteSets, Sequences

CONSTANTS
    Calls,          \* calls of fetch, each from a thread of its own
    Names,          \* host names a resolver can be asked for
    Urls,           \* what the crawler or a Location may name
    NoUrl,          \* no URL, or a redirect without a Location
    MaxRedirects,   \* CRAWL_MAX_REDIRECTS
    CrawlConcurrency, \* settings the client may be created under
    Interval,       \* per_host_minimum_interval_seconds, in ticks
    MaxTracked,     \* max_tracked_hosts
    MaxBytes        \* max_bytes of the call, in blocks

ASSUME FetchAssumption ==
    /\ IsFiniteSet(Calls) /\ IsFiniteSet(Names)
    /\ MaxRedirects \in Nat /\ Interval \in Nat
    /\ CrawlConcurrency \subseteq Nat \ {0} /\ MaxTracked \in Nat \ {0} /\ MaxBytes \in Nat \ {0}
    /\ Urls \subseteq [form : {"control", "scheme", "userinfo", "ok"},
                     port : {"default", "other"},
                     kind : {"name", "literal_public", "literal_private", "blocked"},
                     host : Names, path : {"/", "/a"}]
    /\ NoUrl \notin Urls

VARIABLES
    concurrency, \* of the client, set when it is created
    call,      \* where each call stands
    tracked,   \* hosts with a _DomainState of their own
    slots,     \* free permits of each state's semaphore
    age        \* ticks since last_started_at of each state, Interval at most

fetchVars == <<concurrency, call, tracked, slots, age>>

-----------------------------------------------------------------------------
(* Errors, addresses and URLs.                                             *)

\* SafeFetchError.retryable, all the crawl reads of an error: the other codes
\* fail the page for good.
Retryable == {"dns_failure", "timeout", "unreachable", "temporary_failure",
              "concurrency_limit"}
\* What a resolver's answer or a literal may hold; "junk" is no address.
Addresses == {"public", "private", "junk"}

\* _validate_address: why an address is refused.
AddressError(a) == IF a = "junk" THEN "dns_failure" ELSE "blocked_address"

\* Mutant: the answer is refused only if no address of it is usable.
AnswerErrorMutant(answer) ==
    IF \E i \in DOMAIN answer : answer[i] = "public" THEN "none" ELSE "dns_failure"

\* The whole answer is refused for its first unusable address.
AnswerError(answer) ==
    LET bad == {i \in DOMAIN answer : answer[i] # "public"}
    IN  IF answer = <<>> THEN "dns_failure"
        ELSE IF bad = {} THEN "none"
        ELSE AddressError(answer[CHOOSE i \in bad : \A j \in bad : i <= j])

\* getaddrinfo fails (no answer), or answers with one or two addresses.
Answers == {<<>>} \cup {<<a>> : a \in Addresses} \cup (Addresses \X Addresses)

\* A URL by what decides about it: how it is malformed, if it is; what kind of
\* host it names; the host and path that are its normalized form.
Normalized(u) == <<u.kind, u.host, u.path>>

\* _build_target before it resolves: control characters, scheme, credentials,
\* the host's name, then the port.
ShapeError(u) ==
    CASE u.form # "ok"       -> "invalid_url"
      [] u.form = "ok" /\ u.kind = "blocked" -> "blocked_address"
      [] u.form = "ok" /\ u.kind # "blocked" /\ u.port = "other" -> "blocked_port"
      [] OTHER               -> "none"

\* A literal host answers for itself, a name with whatever the resolver says.
AnswersOf(u) ==
    CASE u.kind = "literal_public"  -> {<<"public">>}
      [] u.kind = "literal_private" -> {<<"private">>}
      [] OTHER                      -> Answers

-----------------------------------------------------------------------------
(* Calls and the limiter's states.  Overflow is the state every host gets  *)
(* that comes after the table is full.                                     *)

Overflow == "overflow"
States == Names \cup {Overflow}

Running == {"target", "slot", "pace", "sleep", "connect", "plain", "compressed"}
Holding == {"pace", "sleep", "connect", "plain", "compressed"}

NewCall == [at |-> "new", url |-> NoUrl, visited |-> {}, redirects |-> 0,
            address |-> "none", state |-> Overflow, wait |-> 0,
            transferred |-> 0, body |-> 0, result |-> "none"]

\* from_django_settings creates the client.
FetchInit ==
    /\ concurrency \in {IF n < 2 THEN n ELSE 2 : n \in CrawlConcurrency}
    /\ call = [c \in Calls |-> NewCall]
    /\ tracked = {}
    /\ slots = [s \in States |-> concurrency]
    /\ age = [s \in States |-> Interval]

Holders(s) == {c \in Calls : call[c].at \in Holding /\ call[c].state = s}

\* Mutant: a failure while the body streams closes the response and keeps the
\* permit.
EndedWithMutant(c, result, size) ==
    /\ call' = [call EXCEPT ![c] = [NewCall EXCEPT !.at = "done", !.result = result,
                                                   !.body = size]]
    /\ slots' = IF call[c].at \in {"pace", "sleep", "connect"}
                THEN [slots EXCEPT ![call[c].state] = @ + 1] ELSE slots
    /\ UNCHANGED <<concurrency, tracked, age>>

\* The call is over, with a body of some size or none, and what it held is
\* given back: the response is closed and the permit released.
EndedWith(c, result, size) ==
    /\ call' = [call EXCEPT ![c] = [NewCall EXCEPT !.at = "done", !.result = result,
                                                   !.body = size]]
    /\ slots' = IF call[c].at \in Holding
                THEN [slots EXCEPT ![call[c].state] = @ + 1] ELSE slots
    /\ UNCHANGED <<concurrency, tracked, age>>
Ended(c, error) ==
    EndedWith(c, IF error \in Retryable THEN "retryable" ELSE "permanent", 0)

\* fetch is called with a URL the crawler read from a sitemap or a page.  As
\* with the Location of a redirect, which one matters from the next step on.
Fetch(c) ==
    /\ call[c].at = "new"
    /\ call' = [call EXCEPT ![c].at = "target"]
    /\ UNCHANGED <<concurrency, tracked, slots, age>>

\* _state_for: a host keeps the state it got first.
StateFor(h) == IF h \in tracked \/ Cardinality(tracked) < MaxTracked
               THEN h ELSE Overflow

\* _build_target refuses the URL, or the resolver's answer, or a URL that was
\* visited in this call.
RefuseTarget(c) ==
    /\ call[c].at = "target"
    /\ \E u \in Urls :
           \/ ShapeError(u) # "none" /\ Ended(c, ShapeError(u))
           \/ /\ ShapeError(u) = "none"
              /\ \E answer \in AnswersOf(u) :
                    \/ AnswerError(answer) # "none" /\ Ended(c, AnswerError(answer))
                    \/ /\ AnswerError(answer) = "none"
                       /\ Normalized(u) \in call[c].visited
                       /\ Ended(c, "too_many_redirects")

\* The target is pinned to the first address of the validated answer.
PinTarget(c) ==
    /\ call[c].at = "target"
    /\ \E u \in Urls :
           /\ ShapeError(u) = "none" /\ Normalized(u) \notin call[c].visited
           /\ \E answer \in AnswersOf(u) :
                /\ AnswerError(answer) = "none"
                /\ call' = [call EXCEPT ![c].at = "slot", ![c].url = u,
                                        ![c].address = answer[1],
                                        ![c].visited = @ \cup {Normalized(u)},
                                        ![c].state = StateFor(u.host)]
           /\ tracked' = IF StateFor(u.host) = Overflow THEN tracked
                         ELSE tracked \cup {u.host}
    /\ UNCHANGED <<concurrency, slots, age>>

-----------------------------------------------------------------------------
(* DomainRateLimiter.acquire.                                              *)

TakeSlot(c) ==
    /\ call[c].at = "slot" /\ slots[call[c].state] > 0
    /\ slots' = [slots EXCEPT ![call[c].state] = @ - 1]
    /\ call' = [call EXCEPT ![c].at = "pace"]
    /\ UNCHANGED <<concurrency, tracked, age>>

\* semaphore.acquire(timeout) gives up.
SlotTimeout(c) ==
    /\ call[c].at = "slot" /\ slots[call[c].state] = 0
    /\ Ended(c, "concurrency_limit")

\* Mutant: the clock is read, slept on and written without the lock.
TimingFreeMutant(s) == TRUE

\* The timing lock is held from the reading of the clock to the start.
TimingFree(s) == \A d \in Calls : ~(call[d].at = "sleep" /\ call[d].state = s)

Pace(c) ==
    /\ call[c].at = "pace" /\ TimingFree(call[c].state)
    /\ call' = [call EXCEPT ![c].at = "sleep", ![c].wait = Interval - age[call[c].state]]
    /\ UNCHANGED <<concurrency, tracked, slots, age>>

Start(c) ==
    /\ call[c].at = "sleep" /\ call[c].wait = 0
    /\ age' = [age EXCEPT ![call[c].state] = 0]
    /\ call' = [call EXCEPT ![c].at = "connect"]
    /\ UNCHANGED <<concurrency, tracked, slots>>

\* Time passes; a sleep may last longer than it was asked to.
Tick ==
    /\ \/ \E s \in States : age[s] < Interval
       \/ \E c \in Calls : call[c].wait > 0
    /\ age' = [s \in States |-> IF age[s] < Interval THEN age[s] + 1 ELSE age[s]]
    /\ call' = [c \in Calls |-> [call[c] EXCEPT !.wait = IF @ > 0 THEN @ - 1 ELSE 0]]
    /\ UNCHANGED <<concurrency, tracked, slots>>

-----------------------------------------------------------------------------
(* The connection, the response and its body.                              *)

\* Connecting, the TLS handshake or the response's head fails.
TransportFails(c) ==
    /\ call[c].at = "connect"
    /\ \E e \in {"timeout", "tls_error", "unreachable"} : Ended(c, e)

\* Mutant: a redirect is followed by a new fetch.
RedirectMutant(c) ==
    /\ call[c].at = "connect"
    /\ call' = [call EXCEPT ![c] = [NewCall EXCEPT !.at = "target"]]
    /\ slots' = [slots EXCEPT ![call[c].state] = @ + 1]
    /\ UNCHANGED <<concurrency, tracked, age>>

\* A redirect leaves the slot and closes the response before the next hop.
Redirect(c) ==
    /\ call[c].at = "connect"
    /\ call[c].redirects < MaxRedirects
    /\ call' = [call EXCEPT ![c].at = "target", ![c].url = NoUrl, ![c].address = "none",
                            ![c].state = Overflow, ![c].redirects = @ + 1]
    /\ slots' = [slots EXCEPT ![call[c].state] = @ + 1]
    /\ UNCHANGED <<concurrency, tracked, age>>

\* A redirect without Location, or one more than allowed.
RedirectRefused(c) ==
    /\ call[c].at = "connect"
    /\ \E location \in Urls \cup {NoUrl} :
        /\ location = NoUrl \/ call[c].redirects >= MaxRedirects
        /\ Ended(c, "too_many_redirects")

\* A Location that urljoin cannot parse raises, and no handler of fetch is for it:
\* the slot is left and the response closed, and the error goes to the caller.
RedirectRaises(c) ==
    /\ call[c].at = "connect" /\ call[c].redirects < MaxRedirects
    /\ EndedWith(c, "uncaught", 0)

\* _read_success_response before the body: status, content type, declared
\* length, encoding, in that order.
Responses == [status : {"temporary", "error", "ok"}, allowedType : BOOLEAN,
              length : {"none", "fits", "over"},
              encoding : {"plain", "compressed", "other"}]
HeadError(r) ==
    CASE r.status = "temporary" -> "temporary_failure"
      [] r.status = "error"     -> "http_error"
      [] r.status = "ok" /\ ~r.allowedType -> "unsupported_content_type"
      [] r.status = "ok" /\ r.allowedType /\ r.length = "over" -> "body_too_large"
      [] r.status = "ok" /\ r.allowedType /\ r.length # "over" /\ r.encoding = "other"
            -> "unsupported_content_encoding"
      [] OTHER -> "none"

RefuseResponse(c) ==
    /\ call[c].at = "connect"
    /\ \E r \in Responses : HeadError(r) # "none" /\ Ended(c, HeadError(r))

AcceptResponse(c) ==
    /\ call[c].at = "connect"
    /\ \E r \in Responses : /\ HeadError(r) = "none"
                            /\ call' = [call EXCEPT ![c].at = r.encoding]
    /\ UNCHANGED <<concurrency, tracked, slots, age>>

\* Mutant: the size is compared one block too late.
ReadPlainMutant(c) ==
    /\ call[c].at = "plain"
    /\ \E n \in 0 .. (MaxBytes + 1 - call[c].body) :
        IF n = 0 THEN EndedWith(c, "ok", call[c].body)
        ELSE /\ call' = [call EXCEPT ![c].body = @ + n]
             /\ UNCHANGED <<concurrency, tracked, slots, age>>

\* One turn of _read_plain: at most one block more than allowed is asked for.
ReadPlain(c) ==
    /\ call[c].at = "plain"
    /\ \E n \in 0 .. (MaxBytes + 1 - call[c].body) :
        IF n = 0 THEN EndedWith(c, "ok", call[c].body)
        ELSE IF call[c].body + n > MaxBytes THEN Ended(c, "body_too_large")
        ELSE /\ call' = [call EXCEPT ![c].body = @ + n]
             /\ UNCHANGED <<concurrency, tracked, slots, age>>

\* One turn of _read_compressed: a chunk decodes to any size, cut off one
\* block past the limit.
ReadCompressed(c) ==
    /\ call[c].at = "compressed"
    /\ \E n \in 1 .. (MaxBytes + 1 - call[c].transferred),
          decoded \in 0 .. (MaxBytes + 1 - call[c].body) :
        IF call[c].transferred + n > MaxBytes \/ call[c].body + decoded > MaxBytes
        THEN Ended(c, "body_too_large")
        ELSE /\ call' = [call EXCEPT ![c].transferred = @ + n, ![c].body = @ + decoded]
             /\ UNCHANGED <<concurrency, tracked, slots, age>>

\* The compressed stream ends: flush may add what the decoder kept back, and a
\* stream that stopped early is refused.
EndCompressed(c) ==
    /\ call[c].at = "compressed"
    /\ \E flushed \in 0 .. (MaxBytes + 1 - call[c].body), whole \in BOOLEAN :
        LET size == call[c].body + flushed
        IN  \/ size > MaxBytes /\ Ended(c, "body_too_large")
            \/ size <= MaxBytes /\ whole /\ EndedWith(c, "ok", size)
            \/ size <= MaxBytes /\ ~whole /\ Ended(c, "invalid_content_encoding")

\* A read fails, or the deadline passed before it.
ReadFails(c) ==
    /\ call[c].at \in {"plain", "compressed"}
    /\ \E e \in {"timeout", "unreachable"} : Ended(c, e)

CorruptStream(c) ==
    call[c].at = "compressed" /\ Ended(c, "invalid_content_encoding")

Step(c) ==
    \/ Fetch(c) \/ RefuseTarget(c) \/ PinTarget(c)
    \/ TakeSlot(c) \/ SlotTimeout(c) \/ Pace(c) \/ Start(c)
    \/ TransportFails(c) \/ Redirect(c) \/ RedirectRefused(c) \/ RedirectRaises(c)
    \/ RefuseResponse(c) \/ AcceptResponse(c)
    \/ ReadPlain(c) \/ ReadCompressed(c) \/ EndCompressed(c)
    \/ ReadFails(c) \/ CorruptStream(c)
\* Every call returned.
Idle == (\A c \in Calls : call[c].at = "done") /\ UNCHANGED fetchVars
FetchNext == Idle \/ Tick \/ \E c \in Calls : Step(c)

FetchSpec == FetchInit /\ [][FetchNext]_fetchVars
\* A thread that can go on goes on, and time passes.
FetchFair == FetchSpec /\ WF_fetchVars(Tick)
                       /\ \A c \in Calls : WF_fetchVars(call[c].at # "new" /\ Step(c))

-----------------------------------------------------------------------------
(* Properties.                                                             *)

\* The types of the calls and of the limiter's states.
FetchTypeOK ==
    /\ \A c \in Calls :
        /\ call[c].at \in Running \cup {"new", "done"}
        /\ call[c].url \in Urls \cup {NoUrl}
        /\ call[c].redirects \in 0 .. MaxRedirects
        /\ call[c].wait \in 0 .. Interval
        /\ call[c].body \in 0 .. MaxBytes /\ call[c].transferred \in 0 .. MaxBytes
        /\ call[c].result \in {"none", "ok", "retryable", "permanent", "uncaught"}
    /\ tracked \subseteq Names
    /\ slots \in [States -> 0 .. concurrency] /\ age \in [States -> 0 .. Interval]

\* No host is contacted by more calls at a time than per_host_concurrency, and
\* a call that streams its body counts: also when the table of hosts is full
\* and some share the overflow state.
WithinConcurrency ==
    \A h \in Names :
        Cardinality({c \in Calls : call[c].at \in Holding /\ call[c].url.host = h})
            <= concurrency

\* Requests of one state start at least the minimum interval apart, whichever
\* threads make them: the time is read, slept and written under one lock.
StartsArePaced ==
    [][\A s \in States : age'[s] < age[s] => age[s] = Interval]_fetchVars

\* A permit is either free or held by a call that is on its way: no error, no
\* redirect and no timeout loses one or gives one back twice.
PermitsAccounted ==
    \A s \in States : slots[s] + Cardinality(Holders(s)) = concurrency

\* The limit of a host is kept, and no permit of it is lost or made up.
PermitsHold == WithinConcurrency /\ PermitsAccounted

\* Whatever the resolver answers on each hop, and whatever a redirect names, a
\* connection is only made to a public address, on a URL not seen before in
\* this call; the chain of redirects and the body stay within their limits.
ContactsArePublic ==
    \A c \in Calls : call[c].at \in Holding =>
        /\ call[c].address = "public" /\ ShapeError(call[c].url) = "none"
        /\ Cardinality(call[c].visited) = call[c].redirects + 1
        /\ Normalized(call[c].url) \in call[c].visited

\* Every fetch returns, whatever it waits for and however long the chain.
FetchEnds == \A c \in Calls : (call[c].at # "new") ~> (call[c].at = "done")
=============================================================================
