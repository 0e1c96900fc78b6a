----------------------------- MODULE OAuthTokens -----------------------------
(***************************************************************************)
(* MCP authorization: the OAuth endpoints of apps/mcp_server/oauth.py over *)
(* the rows of models.py, and the requests that apps/mcp_server/auth.py    *)
(* and server.py admit with the tokens or with an API key.  A grant locks  *)
(* its row, writes, and commits; a statement of another request sees what  *)
(* was committed before it.  Rotation is split at the UPDATE that revokes  *)
(* access tokens, since two rotations of one client may overlap there.     *)
(***************************************************************************)
EXTENDS Integers, FiniteSets

CONSTANTS
    Clients,        \* OAuth clients that may register
    Members,        \* users
    Registrations,  \* client metadata that may be posted
    MaxCodes,       \* bound: authorization codes
    MaxPairs,       \* bound: pairs of an access and a refresh token
    Requests,       \* requests to the token endpoint or the MCP transport
    None            \* no row

ASSUME TokensAssumption ==
    /\ IsFiniteSet(Requests) /\ MaxCodes \in Nat /\ MaxPairs \in Nat
    /\ None \notin Clients \cup Members \cup (Int \X {"code", "pair"})
    /\ \A u \in Members : u \notin Nat

VARIABLES
    client,    \* McpOAuthClient rows
    code,      \* McpOAuthAuthorizationCode rows
    access,    \* McpOAuthAccessToken rows
    refresh,   \* McpOAuthRefreshToken rows, under the id of their access token
    request,   \* what each request is doing
    active,    \* User.is_active
    apiKey     \* how often each member's API key was rotated

\* Codes and pairs are numbered as they are created.
Codes == (1 .. MaxCodes) \X {"code"}
Pairs == (1 .. MaxPairs) \X {"pair"}

oauthVars == <<client, code, access, refresh, request, active, apiKey>>

-----------------------------------------------------------------------------
(* Rows.  An expired row stays; expiry is a fact about the clock.          *)

NoClient == [state |-> "absent", uris |-> {}, method |-> "none"]
NoCode == [state |-> "absent", client |-> None, user |-> None, uri |-> "none",
           expired |-> FALSE]
NoToken == [state |-> "absent", client |-> None, user |-> None, from |-> None,
            expired |-> FALSE]
NoRequest == [at |-> "idle", row |-> None, seen |-> {}, bearer |-> None, began |-> {}]

OAuthInit ==
    /\ client = [k \in Clients |-> NoClient]
    /\ code = [d \in Codes |-> NoCode]
    /\ access = [p \in Pairs |-> NoToken] /\ refresh = [p \in Pairs |-> NoToken]
    /\ request = [r \in Requests |-> NoRequest]
    /\ active = [u \in Members |-> TRUE] /\ apiKey = [u \in Members |-> 0]

\* The next row of a table.
Fresh(x, table) == /\ table[x].state = "absent"
                   /\ \A y \in DOMAIN table : y[1] < x[1] => table[y].state # "absent"
Live(row) == row.state = "live" /\ ~row.expired

-----------------------------------------------------------------------------
(* Registration and authorization.                                         *)

\* A redirect URI is an https URL, or http to the machine itself.
AllowedRedirect(uri) == uri \in {"https", "loopback"}
AuthMethods == {"none", "client_secret_basic", "client_secret_post"}
Supported == {"mcp:user", "offline_access"}

Registrable(m) ==
    /\ m.uris # {} /\ \A uri \in m.uris : AllowedRedirect(uri)
    /\ m.method \in AuthMethods
    /\ m.grants \subseteq {"authorization_code", "refresh_token"}
    /\ m.responses = {"code"} /\ m.scope \subseteq Supported /\ m.name = "short"

RegisterClient(k) ==
    /\ client[k].state = "absent"
    /\ \E m \in Registrations :
        /\ Registrable(m)
        /\ client' = [client EXCEPT ![k] = [state |-> "live", uris |-> m.uris,
                                            method |-> m.method]]
    /\ UNCHANGED <<code, access, refresh, request, active, apiKey>>

\* _validated_authorization_request: a page that asks, or an error.
ResourceAccepted(resource) == resource # "other"
PkceMatches(pkce) == pkce = "matches"

Authorizations == [uri : {"https", "loopback", "http"}, response : {"code", "token"},
                   pkce : {"S256", "plain", "malformed"}, scope : {{"mcp:user"}, {"admin"}},
                   resource : {"none", "canonical", "alias", "other"}]
Authorizable(k, a) ==
    /\ client[k].state = "live" /\ a.uri \in client[k].uris
    /\ a.response = "code" /\ a.pkce = "S256"
    /\ a.scope \subseteq Supported /\ ResourceAccepted(a.resource)

\* A member who is signed in approves.  An inactive one cannot sign in.
Authorize(u, k) ==
    /\ active[u]
    /\ \E a \in Authorizations, d \in Codes :
        /\ Authorizable(k, a) /\ Fresh(d, code)
        /\ code' = [code EXCEPT ![d] = [state |-> "live", client |-> k, user |-> u,
                                        uri |-> a.uri, expired |-> FALSE]]
    /\ UNCHANGED <<client, access, refresh, request, active, apiKey>>

-----------------------------------------------------------------------------
(* The token endpoint.                                                     *)

Free(r) == request[r].at \in {"idle", "served", "told"}
Busy(r) == request[r].at \in {"exchange", "rotate", "swept"}
\* The row is locked by the transaction of a request.
LockedBy(r, row) == Busy(r) /\ request[r].row = row

\* Mutant: select_for_update is missing.
UnlockedMutant(row) == TRUE

Unlocked(row) == \A r \in Requests : ~LockedBy(r, row)

\* _authenticate_token_client: a public client names itself, a confidential one
\* shows its secret, whose salted hash is stored.
SecretVerified(secret) == secret = "right"
Authenticates(k, secret) ==
    client[k].state = "live" /\ (client[k].method = "none" \/ SecretVerified(secret))

\* _issue_tokens: a new pair of tokens for the client and user of a grant.
Issued(p, from, k, u) ==
    [state |-> "live", client |-> k, user |-> u, from |-> from, expired |-> FALSE]

\* grant_type=authorization_code, up to the row lock and the checks under it.
ExchangeLock(r, k, d) ==
    /\ Free(r) /\ Unlocked(d)
    /\ \E secret \in {"right", "wrong"} : Authenticates(k, secret)
    /\ \E uri \in {"https", "loopback"}, pkce \in {"matches", "differs"},
          resource \in {"none", "canonical", "other"} :
        /\ code[d].client = k /\ Live(code[d]) /\ code[d].uri = uri
        /\ PkceMatches(pkce) /\ ResourceAccepted(resource)
    /\ request' = [request EXCEPT ![r] = [NoRequest EXCEPT !.at = "exchange", !.row = d]]
    /\ UNCHANGED <<client, code, access, refresh, active, apiKey>>

\* The code is marked as used and its tokens are committed with it.
ExchangeCommit(r) ==
    /\ request[r].at = "exchange"
    /\ LET d == request[r].row
       IN  \E p \in Pairs :
            /\ Fresh(p, access)
            /\ code' = [code EXCEPT ![d].state = "used"]
            /\ access' = [access EXCEPT ![p] = Issued(p, d, code[d].client, code[d].user)]
            /\ refresh' = [refresh EXCEPT ![p] = Issued(p, d, code[d].client, code[d].user)]
    /\ request' = [request EXCEPT ![r] = NoRequest]
    /\ UNCHANGED <<client, active, apiKey>>

\* grant_type=refresh_token: the lock re-reads the row, so a token that another
\* request rotated meanwhile is not found.
RotateLock(r, k, p) ==
    /\ Free(r) /\ Unlocked(p)
    /\ \E secret \in {"right", "wrong"} : Authenticates(k, secret)
    /\ refresh[p].client = k /\ Live(refresh[p])
    /\ request' = [request EXCEPT ![r] = [NoRequest EXCEPT !.at = "rotate", !.row = p]]
    /\ UNCHANGED <<client, code, access, refresh, active, apiKey>>

\* The UPDATE sees the access tokens of client and user that are committed when
\* it starts.  Where two rotations write one row the second waits for the first
\* and finds the row revoked; here either of them may commit first.
Swept(p) == {q \in Pairs : /\ access[q].state = "live"
                           /\ access[q].client = refresh[p].client
                           /\ access[q].user = refresh[p].user}
RotateSweep(r) ==
    /\ request[r].at = "rotate"
    /\ request' = [request EXCEPT ![r].at = "swept", ![r].seen = Swept(request[r].row)]
    /\ UNCHANGED <<client, code, access, refresh, active, apiKey>>

RotateCommit(r) ==
    /\ request[r].at = "swept"
    /\ LET p == request[r].row
           new(q) == Issued(q, p, refresh[p].client, refresh[p].user)
       IN  \E q \in Pairs :
            /\ Fresh(q, access)
            /\ access' = [x \in Pairs |->
                            IF x = q THEN new(q)
                            ELSE IF x \in request[r].seen
                                 THEN [access[x] EXCEPT !.state = "revoked"]
                            ELSE access[x]]
            /\ refresh' = [refresh EXCEPT ![p].state = "revoked", ![q] = new(q)]
    /\ request' = [request EXCEPT ![r] = NoRequest]
    /\ UNCHANGED <<client, code, active, apiKey>>

\* The process dies inside a grant: its transaction is rolled back.
Abort(r) ==
    /\ Busy(r)
    /\ request' = [request EXCEPT ![r] = NoRequest]
    /\ UNCHANGED <<client, code, access, refresh, active, apiKey>>

\* revoke: two statements, one for each table; a token is in one of them.
RevokeAccess(k, p) ==
    /\ Authenticates(k, "right") /\ access[p].state = "live" /\ access[p].client = k
    /\ \A r \in Requests : p \notin request[r].seen
    /\ access' = [access EXCEPT ![p].state = "revoked"]
    /\ UNCHANGED <<client, code, refresh, request, active, apiKey>>

RevokeRefresh(k, p) ==
    /\ Authenticates(k, "right") /\ refresh[p].state = "live" /\ refresh[p].client = k
    /\ Unlocked(p)
    /\ refresh' = [refresh EXCEPT ![p].state = "revoked"]
    /\ UNCHANGED <<client, code, access, request, active, apiKey>>

\* Ten minutes, an hour or thirty days pass.
Expire ==
    /\ \/ \E d \in Codes : /\ Live(code[d]) /\ Unlocked(d)
                           /\ code' = [code EXCEPT ![d].expired = TRUE]
                           /\ UNCHANGED <<access, refresh>>
       \/ \E p \in Pairs : /\ Live(access[p])
                           /\ access' = [access EXCEPT ![p].expired = TRUE]
                           /\ UNCHANGED <<code, refresh>>
       \/ \E p \in Pairs : /\ Live(refresh[p]) /\ Unlocked(p) /\ access[p].expired
                           /\ refresh' = [refresh EXCEPT ![p].expired = TRUE]
                           /\ UNCHANGED <<code, access>>
    /\ UNCHANGED <<client, request, active, apiKey>>

-----------------------------------------------------------------------------
(* MCP requests.  A credential is an access token or <<member, n>>, the    *)
(* n-th API key of a member.                                               *)

ApiKeys == Members \X {0, 1}
KeyValid(c) == c \in ApiKeys /\ active[c[1]] /\ apiKey[c[1]] = c[2]

\* authenticate_mcp_headers: an access token, else an API key, whichever header
\* carries it; the member it stands for.
MemberOf(c) ==
    IF c \in Pairs /\ Live(access[c]) THEN access[c].user
    ELSE IF KeyValid(c) THEN c[1] ELSE None

\* McpAuthMiddleware admits the request; its answer is not kept.
Enter(r) ==
    /\ Free(r)
    /\ \E c \in Pairs \cup ApiKeys :
        /\ MemberOf(c) # None
        /\ request' = [request EXCEPT ![r] = [NoRequest EXCEPT !.at = "entered",
                                                               !.bearer = c]]
    /\ UNCHANGED <<client, code, access, refresh, active, apiKey>>

\* Mutant: the tool relies on what the middleware found.
TrustedMutant(r) == TRUE

\* _authenticate_profile: the tool reads the headers and the rows once more.
Authenticated(r) == MemberOf(request[r].bearer) # None

\* The credentials there are (history: those there were when a tool began).
Credentials ==
    {p \in Pairs : access[p].state # "absent"} \cup {c \in ApiKeys : c[2] <= apiKey[c[1]]}

\* The tool authenticates; get_user_info answers with the account it then has,
\* and search_member_articles goes on to the search service.
CallTool(r) ==
    /\ request[r].at = "entered"
    /\ \/ /\ ~Authenticated(r) /\ request' = [request EXCEPT ![r] = NoRequest]
       \/ /\ Authenticated(r)
          /\ \E at \in {"told", "called"} :
                request' = [request EXCEPT ![r].at = at, ![r].began = Credentials]
    /\ UNCHANGED <<client, code, access, refresh, active, apiKey>>

\* The service reads the account again, and refuses one that is inactive.
UserOf(c) == IF c \in Pairs THEN access[c].user ELSE c[1]
ReadAccount(r) ==
    /\ request[r].at = "called"
    /\ request' = IF active[UserOf(request[r].bearer)]
                  THEN [request EXCEPT ![r].at = "searching"]
                  ELSE [request EXCEPT ![r] = NoRequest]
    /\ UNCHANGED <<client, code, access, refresh, active, apiKey>>

\* The provider and the index, which SearchQueries details, answer or fail; the
\* credential and the account are not read again.
FinishSearch(r) ==
    /\ request[r].at = "searching"
    /\ \/ request' = [request EXCEPT ![r].at = "served"]
       \/ request' = [request EXCEPT ![r] = NoRequest]
    /\ UNCHANGED <<client, code, access, refresh, active, apiKey>>

\* An administrator disables a member; a member rotates the key.
Disable(u) ==
    /\ active[u] /\ active' = [active EXCEPT ![u] = FALSE]
    /\ UNCHANGED <<client, code, access, refresh, request, apiKey>>
RotateKey(u) ==
    /\ active[u] /\ apiKey[u] = 0 /\ apiKey' = [apiKey EXCEPT ![u] = 1]
    /\ UNCHANGED <<client, code, access, refresh, request, active>>

OAuthNext ==
    \/ \E k \in Clients : RegisterClient(k)
    \/ \E u \in Members, k \in Clients : Authorize(u, k)
    \/ \E r \in Requests, k \in Clients :
        \/ \E d \in Codes : ExchangeLock(r, k, d)
        \/ \E p \in Pairs : RotateLock(r, k, p)
    \/ \E r \in Requests : \/ ExchangeCommit(r) \/ RotateSweep(r) \/ RotateCommit(r)
                           \/ Abort(r) \/ Enter(r)
                           \/ CallTool(r) \/ ReadAccount(r) \/ FinishSearch(r)
    \/ \E k \in Clients, p \in Pairs : RevokeAccess(k, p) \/ RevokeRefresh(k, p)
    \/ Expire
    \/ \E u \in Members : Disable(u) \/ RotateKey(u)

OAuthSpec == OAuthInit /\ [][OAuthNext]_oauthVars

-----------------------------------------------------------------------------
(* Properties.                                                             *)

RowStates == {"absent", "live", "used", "revoked"}
Row == [state : RowStates, client : Clients \cup {None}, user : Members \cup {None},
        from : Codes \cup Pairs \cup {None}, expired : BOOLEAN]

\* The types of the rows and requests; a row that exists belongs to a client and
\* a user.
OAuthTypeOK ==
    /\ \A k \in Clients : client[k].state \in {"absent", "live"}
                         /\ client[k].method \in AuthMethods
    /\ \A d \in Codes : code[d].state \in RowStates
    /\ access \in [Pairs -> Row] /\ refresh \in [Pairs -> Row]
    /\ \A p \in Pairs : access[p].state # "absent" =>
                            access[p].client \in Clients /\ access[p].user \in Members
                              /\ refresh[p].client = access[p].client
    /\ active \in [Members -> BOOLEAN] /\ apiKey \in [Members -> 0 .. 1]

\* An authorization code, and a refresh token, yields one pair of tokens at
\* most, though two requests present it at the same time.
GrantsUsedOnce ==
    \A p, q \in Pairs : access[p].from # None /\ access[p].from = access[q].from => p = q

\* Once a refresh token was rotated, the access token issued with it is dead,
\* whatever other rotations, revocations and exchanges overlap.
RotatedIsDead ==
    \A p, q \in Pairs : access[q].from = p => ~Live(access[p])

\* A grant is spent once, and what it replaced is dead from then on.
GrantsAreSpent == GrantsUsedOnce /\ RotatedIsDead

\* One credential takes the place of another: the access token that a refresh
\* token was rotated into, or a member's newer API key.
Replaces(new, old) ==
    IF old \in Pairs THEN new \in Pairs /\ access[new].from = old
    ELSE new \in ApiKeys /\ new[1] = old[1] /\ new[2] > old[2]

\* A tool answers on a credential that nothing had replaced yet when the tool
\* began, whatever the middleware admitted before that, and however long the
\* search took: a member who rotates a leaked key or token loses at most the
\* calls that are already under way.
ServedBeforeReplaced ==
    \A r \in Requests : request[r].at \in {"served", "told"} =>
        \A new \in request[r].began : ~Replaces(new, request[r].bearer)
=============================================================================
