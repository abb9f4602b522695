----------------------------- MODULE AuthGuard -----------------------------
(***************************************************************************)
(* AuthGuard of libs/auth in front of an HTTP handler, with the cache of   *)
(* validated tokens, and the listener that drops a revoked token from it.  *)
(* A guard runs up to its next await; the await of the cache and of the    *)
(* ValidateToken call each end in a step of their own.                     *)
(***************************************************************************)
EXTENDS TokenService

CONSTANTS Request,
          CacheTtl,  \* AUTH_TOKEN_MAX_CACHE_TTL
          Latency    \* bound: between the validation of a token and the write of its
                     \* result to the cache

ASSUME GuardAssumption == CacheTtl \in Nat \ {0} /\ Latency \in Nat

VARIABLES
    cache,    \* the user and the expiry of each token's entry, or Missing
    request,  \* where each request is, its bearer token, and when the auth service
              \* validated that
    store     \* the CLS store of each request

guardVars == <<cache, request, store>>

NoToken == 0
Nobody  == "nobody"
Empty   == [id |-> Nobody, user |-> Nobody]
Missing == [user |-> Nobody, expires |-> 0]

Waiting == {"reading", "validating", "storing"}
Place   == Waiting \cup {"idle", "handling", "answered", "failed", "refused", "crashed", "cut"}

\* A request has nothing in its store before its guard let it in.
GuardTypeOK ==
    /\ cache \in [1..MaxTokens -> [user : User \cup {Nobody}, expires : Nat]]
    /\ request \in [Request -> [at : Place, bearer : 0..Len(tokens), checked : 0..now]]
    /\ store \in [Request -> [id : Request \cup {Nobody}, user : User \cup {Nobody}]]
    /\ \A r \in Request : request[r].at \in Waiting \cup {"idle", "refused"} =>
                            store[r] = Empty

GuardInit ==
    /\ cache = [t \in 1..MaxTokens |-> Missing]
    /\ request = [r \in Request |-> [at |-> "idle", bearer |-> NoToken, checked |-> 0]]
    /\ store = [r \in Request |-> Empty]

Goes(r, from, to) ==
    /\ request[r].at = from
    /\ request' = [request EXCEPT ![r].at = to]

\* Mutant of SetStore: there is one store for all requests.
SetSharedStore(r, context) == store' = [q \in Request |-> context]

\* The setters of ClsService write to the store of the request they run in.
SetStore(r, context) == store' = [store EXCEPT ![r] = context]

\* setUserContext, and RequestIdGuard's request id.
LetIn(r, user) == SetStore(r, [id |-> r, user |-> user])

\* @Public(): let in without a user.
LetInPublic(r) ==
    /\ Goes(r, "idle", "handling")
    /\ LetIn(r, Nobody)
    /\ UNCHANGED cache

\* extractToken finds the token of a well-formed header.
ReadCache(r, t) ==
    /\ request[r].at = "idle"
    /\ request' = [request EXCEPT ![r] = [at |-> "reading", bearer |-> t, checked |-> 0]]
    /\ UNCHANGED <<cache, store>>

Cached(t) == now < cache[t].expires

CacheHit(r) ==
    /\ Goes(r, "reading", "handling")
    /\ Cached(request[r].bearer)
    /\ LetIn(r, cache[request[r].bearer].user)
    /\ UNCHANGED cache

CacheMiss(r) ==
    /\ Goes(r, "reading", "validating")
    /\ ~ Cached(request[r].bearer)
    /\ UNCHANGED <<cache, store>>

\* The auth service answers that the token is valid.
Validated(r) ==
    /\ request[r].at = "validating"
    /\ ValidateToken(request[r].bearer)
    /\ request' = [request EXCEPT ![r].at = "storing", ![r].checked = now]
    /\ UNCHANGED <<cache, store>>

\* Mutant of Written: the entry does not expire.
WrittenForGood(r) == [user |-> tokens[request[r].bearer].user, expires |-> MaxTime + 1]

\* The user of the answer, with AUTH_TOKEN_MAX_CACHE_TTL whatever the token's expiry.
Written(r) == [user |-> tokens[request[r].bearer].user, expires |-> now + CacheTtl]

\* Mutant of CacheSet: the key does not tell tokens apart.
CacheSetOneKey(r) ==
    /\ Goes(r, "storing", "handling")
    /\ cache' = [t \in 1..MaxTokens |-> Written(r)]
    /\ LetIn(r, Written(r).user)

CacheSet(r) ==
    /\ Goes(r, "storing", "handling")
    /\ cache' = [cache EXCEPT ![request[r].bearer] = Written(r)]
    /\ LetIn(r, Written(r).user)

\* canActivate throws: there is no token; the cache cannot be read or written; the
\* token is not valid or the auth service does not answer.
Throws(r) == request[r].at \in Waiting \cup {"idle"}

\* handleSessionRevoked: the entry of the token is deleted.  A request that has
\* validated the token writes it again.
SessionRevoked(t) ==
    /\ cache' = [cache EXCEPT ![t] = Missing]
    /\ UNCHANGED <<request, store>>

=============================================================================
