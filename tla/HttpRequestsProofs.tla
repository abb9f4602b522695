------------------------ MODULE HttpRequestsProofs ------------------------
(***************************************************************************)
(* Requests behind the guard, its cache and the log, for any requests,     *)
(* users, tokens and lifetimes.                                            *)
(***************************************************************************)
EXTENDS HttpRequests, SequenceTheorems, TLAPS

-----------------------------------------------------------------------------
(* Steps *)

ClockStill == UNCHANGED <<now, tokens>>

\* The actions of the system, the groups of Next opened.
Step(r) ==
    \/ LetInPublic(r) /\ LogsRequest(r) /\ ClockStill
    \/ \E t \in Tokens : ReadCache(r, t) /\ UNCHANGED log /\ ClockStill
    \/ CacheHit(r) /\ LogsRequest(r) /\ ClockStill
    \/ CacheSet(r) /\ LogsRequest(r) /\ ClockStill
    \/ (CacheMiss(r) \/ Validated(r)) /\ UNCHANGED log /\ ClockStill
    \/ Refuse(r)
    \/ HandlerReturns(r)
    \/ HandlerThrows(r)
    \/ Crash(r)

LEMMA NextStep ==
  [Next]_vars => (\E r \in Request : Step(r)) \/ Issues \/ Revoke \/ Tick \/ UNCHANGED vars
<1>1. ASSUME NEW r \in Request, Arrive(r) \/ GuardEnds(r) PROVE Step(r)
  BY <1>1 DEF Arrive, GuardEnds, Step, ClockStill
<1>2. ASSUME NEW r \in Request, Refuse(r) \/ HandlerReturns(r) \/ HandlerThrows(r) \/ Crash(r)
      PROVE  Step(r)
  BY <1>2 DEF Step
<1> QED
  BY <1>1, <1>2 DEF Next

-----------------------------------------------------------------------------
(* Tokens and lines *)

\* A token stays what it was signed as.
LEMMA SignedTokens ==
  ASSUME TokensTypeOK, Issues
  PROVE  /\ now' = now /\ tokens' \in Seq(Token) /\ Len(tokens') <= MaxTokens
         /\ Len(tokens) \in Nat /\ Len(tokens) <= Len(tokens')
         /\ \A t \in Tokens : t \in Tokens' /\ tokens'[t] = tokens[t]
<1>1. PICK u \in User : Issue(u)
  <2>1. ASSUME NEW t \in Tokens PROVE tokens[t].user \in User
    <3>1. tokens[t] \in Token
      BY ElementOfSeq DEF TokensTypeOK, Tokens
    <3> QED
      BY <3>1 DEF Token
  <2> QED
    BY <2>1 DEF Issues, Sign, Login, RefreshToken
<1>2. TokenPair(u) \in Seq(Token) /\ Len(TokenPair(u)) = 2
  BY TtlAssumption DEF TokenPair, Token, TokensTypeOK
<1>3. PICK pair : pair = TokenPair(u)
  OBVIOUS
<1>4. tokens \in Seq(Token) /\ Len(tokens) \in Nat /\ pair \in Seq(Token) /\ Len(pair) = 2
  BY <1>2, <1>3, LenProperties DEF TokensTypeOK
<1>5. /\ tokens \o pair \in Seq(Token) /\ Len(tokens \o pair) = Len(tokens) + 2
      /\ \A i \in 1..(Len(tokens) + 2) :
            (tokens \o pair)[i] = IF i <= Len(tokens) THEN tokens[i] ELSE pair[i - Len(tokens)]
  <2>1. Len(tokens \o pair) = Len(tokens) + Len(pair)
    BY <1>4, ConcatProperties
  <2> QED
    BY <1>4, <2>1, ConcatProperties
<1>6. tokens' = tokens \o pair /\ now' = now /\ Len(tokens) + 2 <= MaxTokens
  BY <1>1, <1>3 DEF Issue
<1>7. \A t \in 1..Len(tokens) : t \in 1..Len(tokens') /\ tokens'[t] = tokens[t]
  BY <1>4, <1>5, <1>6
<1> QED
  BY <1>4, <1>5, <1>6, <1>7 DEF Tokens

Id == Request \cup {Nobody}

\* Lines that carry the request id n.
LinesOf(n) == {lines \in Seq(Log) : \A i \in DOMAIN lines : lines[i].requestId = n}

LEMMA LinesConcat ==
  ASSUME NEW n, NEW m \in LinesOf(n), NEW l \in LinesOf(n)
  PROVE  m \o l \in LinesOf(n)
<1>1. m \in Seq(Log) /\ l \in Seq(Log)
  BY DEF LinesOf
<1>2. /\ m \o l \in Seq(Log) /\ Len(m \o l) = Len(m) + Len(l)
      /\ \A i \in 1..(Len(m) + Len(l)) :
            (m \o l)[i] = IF i <= Len(m) THEN m[i] ELSE l[i - Len(m)]
  BY <1>1, ConcatProperties
<1>3. Len(m) \in Nat /\ Len(l) \in Nat /\ DOMAIN m = 1..Len(m) /\ DOMAIN l = 1..Len(l)
      /\ DOMAIN (m \o l) = 1..(Len(m) + Len(l))
  BY <1>1, <1>2, LenProperties
<1>4. \A i \in 1..(Len(m) + Len(l)) : (m \o l)[i].requestId = n
  <2> SUFFICES ASSUME NEW i \in 1..(Len(m) + Len(l)) PROVE (m \o l)[i].requestId = n
    OBVIOUS
  <2>1. CASE i <= Len(m)
    BY <1>2, <1>3, <2>1 DEF LinesOf
  <2>2. CASE ~ (i <= Len(m))
    <3>1. i - Len(m) \in DOMAIN l
      BY <1>3, <2>2
    <3> QED
      BY <1>2, <2>2, <3>1 DEF LinesOf
  <2> QED
    BY <2>1, <2>2
<1> QED
  BY <1>2, <1>3, <1>4 DEF LinesOf

LEMMA NoLines == ASSUME NEW n PROVE <<>> \in LinesOf(n)
BY DEF LinesOf

LEMMA OneLine ==
  ASSUME NEW r \in Request, store'[r].id \in Id, NEW says \in Says
  PROVE  /\ Info(says, r) \in LinesOf(store'[r].id)
         /\ Warn(says, r) \in LinesOf(store'[r].id)
         /\ Error(says, r) \in LinesOf(store'[r].id)
BY DEF Info, Warn, Error, Format, LinesOf, Log, Id

\* Whatever is logged for a request is written with the id its store has then.
Logs(r) ==
    \/ LogsRequest(r) \/ LogsResponse(r) \/ (\E status : LogsFailure(r, status))
    \/ LogsRefusal(r) \/ LogsCrash(r)

LEMMA LogsOwnLines ==
  ASSUME LogTypeOK, NEW r \in Request, store'[r].id \in Id, Logs(r)
  PROVE  \E lines \in LinesOf(store'[r].id) : log' = [log EXCEPT ![r] = @ \o lines]
<1> DEFINE n == store'[r].id
<1>1. ASSUME NEW lines, Writes(r, lines), lines \in LinesOf(n)
      PROVE  \E l \in LinesOf(n) : log' = [log EXCEPT ![r] = @ \o l]
  BY <1>1 DEF Writes
<1>2. CASE LogsRequest(r)
  <2>1. Info("REQUEST", r) \in LinesOf(n)
    BY OneLine DEF Says
  <2> QED
    BY <1>1, <1>2, <2>1, NoLines DEF LogsRequest
<1>3. CASE LogsResponse(r)
  <2>1. Info("RESPONSE", r) \in LinesOf(n) /\ Error("SLOW REQUEST", r) \in LinesOf(n)
    BY OneLine DEF Says
  <2>2. CASE UNCHANGED log
    <3>1. log[r] \o <<>> = log[r]
      BY ConcatEmptySeq DEF LogTypeOK
    <3> QED
      BY <2>2, <3>1, NoLines DEF LogTypeOK
  <2> QED
    BY <1>1, <1>3, <2>1, <2>2 DEF LogsResponse
<1>4. ASSUME NEW status, LogsFailure(r, status)
      PROVE  \E l \in LinesOf(n) : log' = [log EXCEPT ![r] = @ \o l]
  <2>1. Error("An error occurred", r) \in LinesOf(n) /\ Warn("RESPONSE(ERROR)", r) \in LinesOf(n)
    BY OneLine DEF Says
  <2> DEFINE first == IF status = "5xx" THEN Error("An error occurred", r) ELSE <<>>
  <2>2. first \in LinesOf(n)
    BY <2>1, NoLines
  <2>3. first \o Warn("RESPONSE(ERROR)", r) \in LinesOf(n)
    <3> HIDE DEF first, n
    <3> QED
      BY <2>1, <2>2, LinesConcat
  <2> QED
    BY <1>1, <1>4, <2>3 DEF LogsFailure
<1>5. CASE LogsRefusal(r)
  <2>1. /\ Error("Catching non-general exception", r) \in LinesOf(n)
        /\ Error("Auth gRPC call failed", r) \in LinesOf(n)
    BY OneLine DEF Says
  <2>2. Error("Auth gRPC call failed", r) \o Error("Catching non-general exception", r) \in LinesOf(n)
    <3> HIDE DEF n
    <3> QED
      BY <2>1, LinesConcat
  <2> QED
    BY <1>1, <1>5, <2>1, <2>2 DEF LogsRefusal
<1>6. CASE LogsCrash(r)
  <2> DEFINE last == Error("Catching non-general exception", r)
  <2>1. last \in LinesOf(n)
    BY OneLine DEF Says
  <2>2. Info("RESPONSE", r) \in LinesOf(n) /\ Error("SLOW REQUEST", r) \in LinesOf(n)
    BY OneLine DEF Says
  <2>3. Info("RESPONSE", r) \o last \in LinesOf(n) /\ Error("SLOW REQUEST", r) \o last \in LinesOf(n)
    <3> HIDE DEF last, n
    <3> QED
      BY <2>1, <2>2, LinesConcat
  <2>4. CASE Writes(r, last)
    BY <1>1, <2>1, <2>4
  <2>5. CASE \E line \in {Info("RESPONSE", r), Error("SLOW REQUEST", r)} : Writes(r, line \o last)
    BY <1>1, <2>3, <2>5
  <2> QED
    BY <1>4, <1>6, <2>4, <2>5 DEF LogsCrash
<1> QED
  BY <1>2, <1>3, <1>4, <1>5, <1>6 DEF Logs

\* The log after a step of request r.
LEMMA LogAfter ==
  ASSUME LogTypeOK, NEW r \in Request, store'[r].id \in Id, Logs(r)
  PROVE  /\ LogTypeOK'
         /\ \A q \in Request \ {r} : log'[q] = log[q]
         /\ log[r] \in LinesOf(store'[r].id) => log'[r] \in LinesOf(store'[r].id)
<1>1. PICK lines \in LinesOf(store'[r].id) : log' = [log EXCEPT ![r] = @ \o lines]
  BY LogsOwnLines
<1>2. lines \in Seq(Log) /\ log[r] \in Seq(Log)
  BY DEF LinesOf, LogTypeOK
<1>3. log[r] \o lines \in Seq(Log)
  BY <1>2, ConcatProperties
<1>4. log'[r] = log[r] \o lines
  BY <1>1 DEF LogTypeOK
<1>5. log[r] \in LinesOf(store'[r].id) => log'[r] \in LinesOf(store'[r].id)
  BY <1>4, LinesConcat
<1> QED
  BY <1>1, <1>3, <1>5 DEF LogTypeOK

-----------------------------------------------------------------------------
(* Types *)

Requests == [at : Place, bearer : 0..Len(tokens), checked : 0..now]

LEMMA TypeFacts ==
  ASSUME TypeOK
  PROVE  /\ Len(tokens) \in Nat /\ now \in Nat /\ Tokens \subseteq 1..MaxTokens
         /\ \A t \in Tokens : tokens[t] \in Token
         /\ request \in [Request -> Requests]
         /\ \A r \in Request : store[r].id \in Id /\ log[r] \in Seq(Log)
<1>1. Len(tokens) \in Nat /\ now \in Nat /\ Len(tokens) <= MaxTokens
  BY LenProperties, BoundAssumption DEF TypeOK, TokensTypeOK
<1>2. \A t \in Tokens : tokens[t] \in Token
  BY ElementOfSeq DEF TypeOK, TokensTypeOK, Tokens
<1> QED
  BY <1>1, <1>2, BoundAssumption DEF TypeOK, GuardTypeOK, LogTypeOK, Tokens, Requests, Id

\* The guard goes on with the token it found in the header.
Bears ==
    \A r \in Request : /\ request[r].at \in Waiting => request[r].bearer \in Tokens
                       /\ request[r].at = "idle" => request[r].bearer = NoToken

Cache == [1..MaxTokens -> [user : User \cup {Nobody}, expires : Nat]]

LEMMA TypeStep == TypeOK /\ Bears /\ (\E r \in Request : Step(r)) => (TypeOK /\ Bears)'
<1> SUFFICES ASSUME TypeOK, Bears, NEW r \in Request, Step(r) PROVE (TypeOK /\ Bears)'
  OBVIOUS
<1> USE TypeFacts
<1>1. ClockStill
  BY DEF Step, Refuse, HandlerReturns, HandlerThrows, FilterAnswers, Crash, ClockStill
<1>2. TokensTypeOK' /\ Tokens' = Tokens /\ Requests' = Requests
  BY <1>1 DEF ClockStill, TypeOK, TokensTypeOK, Tokens, Requests
<1>3. ASSUME GuardTypeOK', Logs(r) \/ UNCHANGED log PROVE TypeOK'
  <2>1. store'[r].id \in Id
    BY <1>3 DEF GuardTypeOK, Id
  <2> QED
    BY <1>2, <1>3, <2>1, LogAfter DEF TypeOK, LogTypeOK
<1> DEFINE Others == \A q \in Request \ {r} : request'[q] = request[q]
\* A step that lets the request in.
<1>4. ASSUME NEW user \in User \cup {Nobody}, LetIn(r, user), LogsRequest(r),
             request'[r].at = "handling", request' \in [Request -> Requests], Others,
             cache' \in Cache
      PROVE  (TypeOK /\ Bears)'
  <2>1. store' \in [Request -> [id : Request \cup {Nobody}, user : User \cup {Nobody}]]
    BY <1>4 DEF LetIn, SetStore, TypeOK, GuardTypeOK
  <2>2. \A q \in Request \ {r} : store'[q] = store[q]
    BY <1>4 DEF LetIn, SetStore, TypeOK, GuardTypeOK
  <2>3. \A q \in Request : request'[q].at \in Waiting \cup {"idle", "refused"} => store'[q] = Empty
    BY <1>4, <2>2 DEF TypeOK, GuardTypeOK, Waiting
  <2>4. GuardTypeOK'
    BY <1>2, <1>4, <2>1, <2>3 DEF GuardTypeOK, Requests, Cache
  <2>5. Bears'
    BY <1>2, <1>4 DEF Bears, Waiting
  <2> QED
    BY <1>3, <1>4, <2>4, <2>5 DEF Logs
\* A step that leaves the stores alone, and the cache.
<1>5. ASSUME store' = store, cache' = cache, request' \in [Request -> Requests],
             \A q \in Request : \/ request'[q].at \notin Waiting \cup {"idle", "refused"}
                                \/ store[q] = Empty,
             Bears', Logs(r) \/ UNCHANGED log
      PROVE  (TypeOK /\ Bears)'
  BY <1>2, <1>3, <1>5 DEF TypeOK, GuardTypeOK, Requests
<1>6. \A q \in Request : request[q].at \in Waiting \cup {"idle", "refused"} => store[q] = Empty
  BY DEF TypeOK, GuardTypeOK
<1>7. CASE LetInPublic(r) /\ LogsRequest(r)
  BY <1>4, <1>7 DEF LetInPublic, Goes, Requests, Place, TypeOK, GuardTypeOK, Cache
<1>8. ASSUME NEW t \in Tokens, ReadCache(r, t), UNCHANGED log PROVE (TypeOK /\ Bears)'
  <2>1. [at |-> "reading", bearer |-> t, checked |-> 0] \in Requests
    BY DEF Requests, Place, Waiting, Tokens
  <2>2. request' \in [Request -> Requests]
    BY <1>8, <2>1 DEF ReadCache
  <2>3. Bears'
    BY <1>2, <1>8 DEF ReadCache, Bears
  <2> QED
    BY <1>5, <1>6, <1>8, <2>2, <2>3 DEF ReadCache
<1>9. CASE CacheHit(r) /\ LogsRequest(r)
  <2>1. request[r].bearer \in 1..MaxTokens
    BY <1>9 DEF CacheHit, Goes, Bears, Waiting
  <2>2. cache[request[r].bearer].user \in User \cup {Nobody} /\ cache' \in Cache
    BY <1>9, <2>1 DEF CacheHit, TypeOK, GuardTypeOK, Cache
  <2>3. /\ request' \in [Request -> Requests] /\ request'[r].at = "handling" /\ Others
        /\ LetIn(r, cache[request[r].bearer].user)
    BY <1>9 DEF CacheHit, Goes, Requests, Place
  <2> QED
    BY <1>4, <1>9, <2>2, <2>3
<1>10. CASE CacheSet(r) /\ LogsRequest(r)
  <2>1. request[r].bearer \in Tokens
    BY <1>10 DEF CacheSet, Goes, Bears, Waiting
  <2>2. Written(r) \in [user : User \cup {Nobody}, expires : Nat] /\ Written(r).user \in User
    BY <2>1, GuardAssumption DEF Written, Token
  <2>3. cache' \in Cache
    BY <1>10, <2>1, <2>2 DEF CacheSet, TypeOK, GuardTypeOK, Cache
  <2>4. /\ request' \in [Request -> Requests] /\ request'[r].at = "handling" /\ Others
        /\ LetIn(r, Written(r).user)
    BY <1>10 DEF CacheSet, Goes, Requests, Place
  <2> QED
    BY <1>4, <1>10, <2>2, <2>3, <2>4
<1>11. CASE CacheMiss(r) /\ UNCHANGED log
  <2>1. /\ request' \in [Request -> Requests] /\ Others /\ store' = store /\ cache' = cache
        /\ request'[r].at = "validating" /\ request'[r].bearer = request[r].bearer
        /\ request[r].at = "reading"
    BY <1>11 DEF CacheMiss, Goes, Requests, Place, Waiting
  <2>2. Bears'
    BY <1>2, <2>1 DEF Bears, Waiting
  <2> QED
    BY <1>5, <1>6, <1>11, <2>1, <2>2 DEF Waiting
<1>12. CASE Validated(r) /\ UNCHANGED log
  <2>1. /\ request' \in [Request -> Requests] /\ Others /\ store' = store /\ cache' = cache
        /\ request'[r].at = "storing" /\ request'[r].bearer = request[r].bearer
        /\ request[r].at = "validating"
    <3>1. request[r] \in Requests /\ now \in 0..now
      OBVIOUS
    <3>2. request'[r] = [at |-> "storing", bearer |-> request[r].bearer, checked |-> now]
      BY <1>12, <3>1 DEF Validated, Requests
    <3>3. request'[r] \in Requests
      BY <3>1, <3>2 DEF Requests, Place, Waiting
    <3>4. request' = [request EXCEPT ![r] = request'[r]]
      BY <1>12 DEF Validated
    <3> QED
      BY <1>12, <3>2, <3>3, <3>4 DEF Validated
  <2>2. Bears'
    BY <1>2, <2>1 DEF Bears, Waiting
  <2> QED
    BY <1>5, <1>6, <1>12, <2>1, <2>2 DEF Waiting
<1>13. CASE Refuse(r) \/ Crash(r)
  <2>1. /\ \A q \in Request : request'[q].bearer = request[q].bearer
        /\ \A q \in Request : request'[q].at \in {"refused", "crashed", "cut"} \/ request'[q] = request[q]
        /\ \A q \in Request : q # r => request'[q].at = "cut" \/ request'[q] = request[q]
        /\ request' \in [Request -> Requests]
    BY <1>13 DEF Refuse, Crash, Restart, Requests, Place
  <2>2. /\ store' = store /\ cache' = cache /\ Logs(r)
        /\ request'[r].at = "crashed" \/ store[r] = Empty
    BY <1>6, <1>13 DEF Refuse, Crash, Restart, Logs, Throws, Requests
  <2>3. Bears'
    BY <1>2, <2>1 DEF Bears, Waiting
  <2> QED
    BY <1>5, <1>6, <2>1, <2>2, <2>3 DEF Waiting
<1>14. CASE HandlerReturns(r) \/ HandlerThrows(r)
  <2>1. /\ request' \in [Request -> Requests] /\ Others /\ store' = store /\ cache' = cache
        /\ request'[r].at \in {"answered", "failed"} /\ Logs(r)
    BY <1>14 DEF HandlerReturns, HandlerThrows, FilterAnswers, Goes, Requests, Place, Logs
  <2>2. Bears'
    BY <1>2, <2>1 DEF Bears, Waiting
  <2> QED
    BY <1>5, <1>6, <2>1, <2>2 DEF Waiting
<1> QED
  BY <1>7, <1>8, <1>9, <1>10, <1>11, <1>12, <1>13, <1>14 DEF Step

LEMMA TypeIssues == TypeOK /\ Bears /\ Issues => (TypeOK /\ Bears)'
<1> SUFFICES ASSUME TypeOK, Bears, Issues PROVE (TypeOK /\ Bears)'
  OBVIOUS
<1>1. /\ now' = now /\ tokens' \in Seq(Token) /\ Len(tokens') <= MaxTokens
      /\ Len(tokens) \in Nat /\ Len(tokens) <= Len(tokens') /\ Tokens \subseteq Tokens'
  BY SignedTokens DEF TypeOK
<1>2. Len(tokens') \in Nat
  BY <1>1, LenProperties
<1>3. Requests \subseteq Requests'
  BY <1>1, <1>2 DEF Requests
<1>4. UNCHANGED <<cache, request, store, log>>
  BY DEF Issues, guardVars
<1> QED
  BY <1>1, <1>3, <1>4 DEF TypeOK, TokensTypeOK, GuardTypeOK, LogTypeOK, Bears, Requests

LEMMA TypeOthers == TypeOK /\ Bears /\ (Revoke \/ Tick \/ UNCHANGED vars) => (TypeOK /\ Bears)'
<1> SUFFICES ASSUME TypeOK, Bears, Revoke \/ Tick \/ UNCHANGED vars PROVE (TypeOK /\ Bears)'
  OBVIOUS
<1>1. CASE Revoke
  <2>1. PICK t \in Tokens : SessionRevoked(t)
    BY <1>1 DEF Revoke
  <2>2. cache' \in [1..MaxTokens -> [user : User \cup {Nobody}, expires : Nat]]
    BY <2>1 DEF SessionRevoked, Missing, TypeOK, GuardTypeOK
  <2> QED
    BY <1>1, <2>1, <2>2
       DEF Revoke, SessionRevoked, TypeOK, TokensTypeOK, GuardTypeOK, LogTypeOK, Bears, Tokens
<1>2. CASE Tick
  <2>1. now' = now + 1 /\ now' \in 0..MaxTime /\ UNCHANGED <<tokens, cache, request, store, log>>
    BY <1>2, BoundAssumption DEF Tick, guardVars, TypeOK, TokensTypeOK
  <2>2. Requests \subseteq Requests'
    BY <2>1, TypeFacts DEF Requests
  <2> QED
    BY <2>1, <2>2 DEF TypeOK, TokensTypeOK, GuardTypeOK, LogTypeOK, Bears, Requests, Tokens
<1>3. CASE UNCHANGED vars
  BY <1>3 DEF vars, guardVars, TypeOK, TokensTypeOK, GuardTypeOK, LogTypeOK, Bears, Tokens
<1> QED
  BY <1>1, <1>2, <1>3

LEMMA TypeInvariant == Spec => [](TypeOK /\ Bears)
<1>1. Init => TypeOK /\ Bears
  <2> SUFFICES ASSUME Init PROVE TypeOK /\ Bears
    OBVIOUS
  <2>1. TokensTypeOK /\ Len(tokens) = 0 /\ now = 0
    BY BoundAssumption DEF Init, TokensInit, TokensTypeOK
  <2>2. GuardTypeOK
    BY <2>1 DEF Init, GuardInit, GuardTypeOK, Missing, Empty, NoToken, Place, Waiting
  <2>3. LogTypeOK /\ Bears
    BY DEF Init, LogInit, LogTypeOK, GuardInit, Bears, Waiting
  <2> QED
    BY <2>1, <2>2, <2>3 DEF TypeOK
<1> QED
  BY <1>1, TypeStep, TypeIssues, TypeOthers, NextStep, PTL DEF Spec

(* Types: a request has nothing in its store before its guard let it in.       *)
THEOREM HttpRequestsType == Spec => []TypeOK
BY TypeInvariant, PTL

-----------------------------------------------------------------------------
(* The context and the cache *)

\* An entry of the cache is of the user of its token, an access token, and outlives
\* the token by no more than the latency of a validation and its own lifetime.
EntryOf(t) ==
    cache[t].expires > 0 =>
        /\ t \in Tokens
        /\ cache[t].user = tokens[t].user
        /\ tokens[t].kind = "access"
        /\ cache[t].expires < tokens[t].exp + Latency + CacheTtl

\* A token the auth service has just validated was valid then.
ValidatedOf(r) ==
    request[r].at = "storing" =>
        LET token == tokens[request[r].bearer]
        IN  /\ token.kind = "access" /\ request[r].checked < token.exp
            /\ now <= request[r].checked + Latency

\* The store and the lines of a request that was let in, and no line before.
ContextOf(r) ==
    /\ request[r].at \in Waiting \cup {"idle"} => log[r] = <<>>
    /\ request[r].at \in {"handling", "answered", "failed", "crashed"} =>
          /\ store[r].id = r
          /\ request[r].bearer # NoToken =>
                /\ request[r].bearer \in Tokens
                /\ store[r].user = tokens[request[r].bearer].user
          /\ request[r].bearer = NoToken => store[r].user = Nobody
          /\ log[r] \in LinesOf(r)

RequestsInv ==
    /\ \A t \in 1..MaxTokens : EntryOf(t)
    /\ \A r \in Request : ValidatedOf(r) /\ ContextOf(r)

\* A request that a step does not concern.
LEMMA OtherRequest ==
  ASSUME NEW q \in Request, ClockStill, ValidatedOf(q), ContextOf(q),
         request'[q] = request[q], store'[q] = store[q], log'[q] = log[q]
  PROVE  ValidatedOf(q)' /\ ContextOf(q)'
BY DEF ClockStill, ValidatedOf, ContextOf, Tokens

\* A request that is let in with the user of its token, or with none.
LEMMA LetInContext ==
  ASSUME TypeOK, NEW r \in Request, NEW user \in User \cup {Nobody}, LetIn(r, user),
         LogsRequest(r), ClockStill, ContextOf(r),
         request[r].at \in Waiting \cup {"idle"},
         request'[r].at = "handling", request'[r].bearer = request[r].bearer,
         IF request[r].bearer = NoToken THEN user = Nobody
         ELSE request[r].bearer \in Tokens /\ user = tokens[request[r].bearer].user
  PROVE  /\ ValidatedOf(r)' /\ ContextOf(r)'
         /\ \A q \in Request \ {r} : store'[q] = store[q] /\ log'[q] = log[q]
<1>1. /\ store'[r].id = r /\ store'[r].user = user
      /\ \A q \in Request \ {r} : store'[q] = store[q]
  BY DEF LetIn, SetStore, TypeOK, GuardTypeOK
<1>2. log[r] \in LinesOf(r)
  BY NoLines DEF ContextOf
<1>3. log'[r] \in LinesOf(r) /\ \A q \in Request \ {r} : log'[q] = log[q]
  BY <1>1, <1>2, LogAfter DEF Logs, TypeOK, Id
<1>4. ValidatedOf(r)'
  BY DEF ValidatedOf
<1>5. ContextOf(r)'
  BY <1>1, <1>3 DEF ContextOf, ClockStill, Tokens, Waiting
<1> QED
  BY <1>1, <1>3, <1>4, <1>5

LEMMA ContextStep ==
  TypeOK /\ Bears /\ RequestsInv /\ (\E r \in Request : Step(r)) => RequestsInv'
<1> SUFFICES ASSUME TypeOK, Bears, RequestsInv, NEW r \in Request, Step(r) PROVE RequestsInv'
  OBVIOUS
<1> USE TypeFacts
<1>1. ClockStill
  BY DEF Step, Refuse, HandlerReturns, HandlerThrows, FilterAnswers, Crash, ClockStill
<1>2. /\ \A t \in 1..MaxTokens : EntryOf(t)
      /\ \A q \in Request : ValidatedOf(q) /\ ContextOf(q)
      /\ \A q \in Request : /\ request[q].at \in Waiting => request[q].bearer \in Tokens
                            /\ request[q].at = "idle" => request[q].bearer = NoToken
  BY DEF RequestsInv, Bears
<1>3. cache' = cache => \A t \in 1..MaxTokens : EntryOf(t)'
  BY <1>1, <1>2 DEF EntryOf, ClockStill, Tokens
<1> DEFINE Others == \A q \in Request \ {r} : request'[q] = request[q]
<1>4. ASSUME Others, \A t \in 1..MaxTokens : EntryOf(t)', ValidatedOf(r)', ContextOf(r)',
             \A q \in Request \ {r} : store'[q] = store[q] /\ log'[q] = log[q]
      PROVE  RequestsInv'
  <2>1. ASSUME NEW q \in Request PROVE ValidatedOf(q)' /\ ContextOf(q)'
    BY <1>1, <1>2, <1>4, OtherRequest
  <2> QED
    BY <1>4, <2>1 DEF RequestsInv
<1>5. CASE LetInPublic(r) /\ LogsRequest(r)
  <2>1. /\ request[r].at = "idle" /\ request'[r].at = "handling" /\ Others
        /\ request'[r].bearer = request[r].bearer /\ LetIn(r, Nobody) /\ cache' = cache
    BY <1>5 DEF LetInPublic, Goes, Requests
  <2>2. request[r].bearer = NoToken /\ ContextOf(r)
    BY <1>2, <2>1
  <2>3. /\ ValidatedOf(r)' /\ ContextOf(r)'
        /\ \A q \in Request \ {r} : store'[q] = store[q] /\ log'[q] = log[q]
    <3> HIDE DEF Others
    <3> QED
      BY <1>1, <1>5, <2>1, <2>2, LetInContext
  <2> QED
    BY <1>3, <1>4, <2>1, <2>3
<1>6. ASSUME NEW t \in Tokens, ReadCache(r, t), UNCHANGED log PROVE RequestsInv'
  <2>1. /\ request'[r].at = "reading" /\ request[r].at = "idle" /\ Others
        /\ store' = store /\ cache' = cache /\ log' = log
    BY <1>6 DEF ReadCache
  <2>2. ValidatedOf(r)' /\ ContextOf(r)'
    BY <1>2, <2>1 DEF ValidatedOf, ContextOf, Waiting
  <2> QED
    BY <1>3, <1>4, <2>1, <2>2
<1>7. CASE CacheHit(r) /\ LogsRequest(r)
  <2> DEFINE t == request[r].bearer
  <2>1. /\ request[r].at = "reading" /\ request'[r].at = "handling" /\ Others
        /\ request'[r].bearer = t /\ LetIn(r, cache[t].user) /\ cache' = cache /\ Cached(t)
    BY <1>7 DEF CacheHit, Goes, Requests
  <2>2. t \in Tokens /\ t \in 1..MaxTokens /\ t # NoToken /\ ContextOf(r)
    BY <1>2, <2>1 DEF Waiting, NoToken, Tokens
  <2>3. cache[t].user = tokens[t].user /\ cache[t].user \in User \cup {Nobody}
    BY <1>2, <2>1, <2>2 DEF Cached, EntryOf, TypeOK, GuardTypeOK
  <2>4. /\ ValidatedOf(r)' /\ ContextOf(r)'
        /\ \A q \in Request \ {r} : store'[q] = store[q] /\ log'[q] = log[q]
    <3> HIDE DEF Others
    <3> QED
      BY <1>1, <1>7, <2>1, <2>2, <2>3, LetInContext DEF Waiting
  <2> QED
    BY <1>3, <1>4, <2>1, <2>4
<1>8. CASE CacheSet(r) /\ LogsRequest(r)
  <2> DEFINE t == request[r].bearer
  <2>1. /\ request[r].at = "storing" /\ request'[r].at = "handling" /\ Others
        /\ request'[r].bearer = t /\ LetIn(r, tokens[t].user)
        /\ cache' = [cache EXCEPT ![t] = Written(r)]
    BY <1>8 DEF CacheSet, Goes, Requests, Written
  <2>2. t \in Tokens /\ t \in 1..MaxTokens /\ t # NoToken /\ ContextOf(r) /\ ValidatedOf(r)
    BY <1>2, <2>1 DEF Waiting, NoToken, Tokens
  <2>3. tokens[t] \in Token /\ tokens[t].user \in User /\ tokens[t].exp \in Nat
    BY <2>2 DEF Token
  <2>4. /\ ValidatedOf(r)' /\ ContextOf(r)'
        /\ \A q \in Request \ {r} : store'[q] = store[q] /\ log'[q] = log[q]
    <3> HIDE DEF Others
    <3> QED
      BY <1>1, <1>8, <2>1, <2>2, <2>3, LetInContext DEF Waiting
  <2>5. /\ tokens[t].kind = "access" /\ now + CacheTtl < tokens[t].exp + Latency + CacheTtl
    BY <2>1, <2>2, <2>3, GuardAssumption DEF ValidatedOf, Requests
  <2>6. ASSUME NEW d \in 1..MaxTokens PROVE EntryOf(d)'
    <3>1. CASE d = t
      <4>1. cache'[d].user = tokens[t].user /\ cache'[d].expires = now + CacheTtl
        BY <2>1, <2>2, <3>1 DEF Written, TypeOK, GuardTypeOK
      <4> QED
        BY <1>1, <2>2, <2>5, <3>1, <4>1 DEF EntryOf, ClockStill, Tokens
    <3>2. CASE d # t
      <4>1. cache'[d] = cache[d]
        BY <2>1, <3>2 DEF TypeOK, GuardTypeOK
      <4> QED
        BY <1>1, <1>2, <4>1 DEF EntryOf, ClockStill, Tokens
    <3> QED
      BY <3>1, <3>2
  <2> QED
    BY <1>4, <2>1, <2>4, <2>6
<1>9. CASE CacheMiss(r) /\ UNCHANGED log
  <2>1. /\ request'[r].at = "validating" /\ request[r].at = "reading" /\ Others
        /\ store' = store /\ cache' = cache /\ log' = log
    BY <1>9 DEF CacheMiss, Goes, Requests
  <2>2. ValidatedOf(r)' /\ ContextOf(r)'
    BY <1>2, <2>1 DEF ValidatedOf, ContextOf, Waiting
  <2> QED
    BY <1>3, <1>4, <2>1, <2>2
<1>10. CASE Validated(r) /\ UNCHANGED log
  <2>1. request[r].at = "validating" /\ Others /\ store' = store /\ cache' = cache /\ log' = log
    BY <1>10 DEF Validated
  <2>2. request'[r] = [at |-> "storing", bearer |-> request[r].bearer, checked |-> now]
    BY <1>10 DEF Validated, Requests
  <2>3. ContextOf(r)'
    BY <1>2, <2>1, <2>2 DEF ContextOf, Waiting
  <2>4. ValidatedOf(r)'
    BY <1>1, <1>10, <2>2, GuardAssumption
       DEF ValidatedOf, Validated, ValidateToken, Verifies, ClockStill
  <2> QED
    BY <1>3, <1>4, <2>1, <2>3, <2>4
<1>11. CASE Refuse(r)
  <2>1. /\ store' = store /\ cache' = cache
        /\ \A q \in Request : request'[q].at \in {"refused", "cut"} \/ request'[q] = request[q]
        /\ \A q \in Request \ {r} : log'[q] = log[q]
        /\ request'[r].at = "refused"
    BY <1>11, LogAfter DEF Refuse, Restart, Logs, TypeOK, GuardTypeOK, Id
  <2>2. ASSUME NEW q \in Request PROVE ValidatedOf(q)' /\ ContextOf(q)'
    <3>1. CASE request'[q].at \in {"refused", "cut"}
      BY <3>1 DEF ValidatedOf, ContextOf, Waiting
    <3>2. CASE q # r /\ request'[q] = request[q]
      BY <1>1, <1>2, <2>1, <3>2, OtherRequest
    <3> QED
      BY <2>1, <3>1, <3>2
  <2> QED
    BY <1>3, <2>1, <2>2 DEF RequestsInv
<1>12. CASE HandlerReturns(r) \/ HandlerThrows(r)
  <2>1. /\ request[r].at = "handling" /\ request'[r].at \in {"answered", "failed"} /\ Others
        /\ request'[r].bearer = request[r].bearer
        /\ store' = store /\ cache' = cache /\ Logs(r)
    BY <1>12 DEF HandlerReturns, HandlerThrows, FilterAnswers, Goes, Requests, Logs
  <2>2. ContextOf(r) /\ store'[r].id = r
    BY <1>2, <2>1 DEF ContextOf
  <2>3. /\ log[r] \in LinesOf(r) => log'[r] \in LinesOf(r)
        /\ \A q \in Request \ {r} : log'[q] = log[q]
    BY <2>1, <2>2, LogAfter DEF Id, TypeOK
  <2>4. ValidatedOf(r)' /\ ContextOf(r)'
    BY <1>1, <2>1, <2>2, <2>3 DEF ValidatedOf, ContextOf, Waiting, ClockStill, Tokens
  <2> QED
    BY <1>3, <1>4, <2>1, <2>3, <2>4
<1>13. CASE Crash(r)
  <2>1. /\ store' = store /\ cache' = cache /\ Logs(r) /\ request[r].at = "handling"
        /\ \A q \in Request \ {r} : request'[q].at = "cut" \/ request'[q] = request[q]
        /\ request'[r].at = "crashed" /\ request'[r].bearer = request[r].bearer
    BY <1>13 DEF Crash, Restart, Logs, Requests
  <2>2. ContextOf(r) /\ store'[r].id = r
    BY <1>2, <2>1 DEF ContextOf
  <2>3. /\ log[r] \in LinesOf(r) => log'[r] \in LinesOf(r)
        /\ \A q \in Request \ {r} : log'[q] = log[q]
    BY <2>1, <2>2, LogAfter DEF Id, TypeOK
  <2>4. ValidatedOf(r)' /\ ContextOf(r)'
    BY <1>1, <2>1, <2>2, <2>3 DEF ValidatedOf, ContextOf, Waiting, ClockStill, Tokens
  <2>5. ASSUME NEW q \in Request \ {r} PROVE ValidatedOf(q)' /\ ContextOf(q)'
    <3>1. CASE request'[q].at = "cut"
      BY <3>1 DEF ValidatedOf, ContextOf, Waiting
    <3>2. CASE request'[q] = request[q]
      BY <1>1, <1>2, <2>1, <2>3, <3>2, OtherRequest
    <3> QED
      BY <2>1, <3>1, <3>2
  <2> QED
    BY <1>3, <2>1, <2>4, <2>5 DEF RequestsInv
<1> QED
  BY <1>5, <1>6, <1>7, <1>8, <1>9, <1>10, <1>11, <1>12, <1>13 DEF Step

LEMMA ContextIssues == TypeOK /\ Bears /\ RequestsInv /\ Issues => RequestsInv'
<1> SUFFICES ASSUME TypeOK, Bears, RequestsInv, Issues PROVE RequestsInv'
  OBVIOUS
<1>1. now' = now /\ \A t \in Tokens : t \in Tokens' /\ tokens'[t] = tokens[t]
  BY SignedTokens DEF TypeOK
<1>2. UNCHANGED <<cache, request, store, log>>
  BY DEF Issues, guardVars
<1>3. \A t \in 1..MaxTokens : EntryOf(t)'
  BY <1>1, <1>2 DEF RequestsInv, EntryOf
<1>4. ASSUME NEW r \in Request PROVE ValidatedOf(r)' /\ ContextOf(r)'
  <2>1. ValidatedOf(r) /\ ContextOf(r) /\ (request[r].at \in Waiting => request[r].bearer \in Tokens)
    BY DEF RequestsInv, Bears
  <2>2. ValidatedOf(r)'
    BY <1>1, <1>2, <2>1 DEF ValidatedOf, Waiting
  <2>3. ContextOf(r)'
    BY <1>1, <1>2, <2>1 DEF ContextOf
  <2> QED
    BY <2>2, <2>3
<1> QED
  BY <1>3, <1>4 DEF RequestsInv

LEMMA ContextOthers ==
  TypeOK /\ RequestsInv /\ (Revoke \/ Tick \/ UNCHANGED vars) => RequestsInv'
<1> SUFFICES ASSUME TypeOK, RequestsInv, Revoke \/ Tick \/ UNCHANGED vars PROVE RequestsInv'
  OBVIOUS
<1>1. UNCHANGED <<tokens, request, store, log>>
  BY DEF Revoke, SessionRevoked, Tick, vars, guardVars
<1>2. ASSUME NEW r \in Request PROVE ContextOf(r)'
  BY <1>1 DEF RequestsInv, ContextOf, Tokens
<1>3. ASSUME NEW r \in Request PROVE ValidatedOf(r)'
  <2>1. request[r].at = "storing" => now' <= request[r].checked + Latency
    <3>1. CASE Tick
      BY <3>1, TypeFacts, GuardAssumption DEF Tick, Requests
    <3>2. CASE Revoke \/ UNCHANGED vars
      BY <3>2 DEF Revoke, vars, RequestsInv, ValidatedOf
    <3> QED
      BY <3>1, <3>2
  <2> QED
    BY <1>1, <2>1 DEF RequestsInv, ValidatedOf
<1>4. ASSUME NEW d \in 1..MaxTokens PROVE EntryOf(d)'
  <2>1. cache'[d] = cache[d] \/ cache'[d] = Missing
    BY DEF Revoke, SessionRevoked, Tick, vars, guardVars, TypeOK, GuardTypeOK
  <2> QED
    BY <1>1, <2>1 DEF RequestsInv, EntryOf, Tokens, Missing
<1> QED
  BY <1>2, <1>3, <1>4 DEF RequestsInv

LEMMA RequestsInvariant == Spec => []RequestsInv
<1>1. Init => RequestsInv
  BY DEF Init, TokensInit, GuardInit, LogInit, RequestsInv, EntryOf, ValidatedOf, ContextOf,
         Missing, Waiting
<1> QED
  BY <1>1, ContextStep, ContextIssues, ContextOthers, TypeInvariant, NextStep, PTL DEF Spec

(* A handler runs as the user its token was signed for, and every line of its  *)
(* request has that request's id, whatever else is under way.                  *)
THEOREM HttpRequestsContext == Spec => []ContextIsOwn
<1>1. RequestsInv => ContextIsOwn
  BY DEF RequestsInv, ContextOf, ContextIsOwn, LinesOf
<1> QED
  BY <1>1, RequestsInvariant, PTL

\* The steps that let a waiting request in.
LEMMA LetInSteps ==
  ASSUME TypeOK, [Next]_vars, NEW r \in Request, LetInNow(r)
  PROVE  CacheHit(r) \/ CacheSet(r)
<1> USE DEF LetInNow
<1>0. request \in [Request -> Requests]
  BY TypeFacts
<1>1. ASSUME NEW q \in Request, Step(q) PROVE CacheHit(r) \/ CacheSet(r)
  <2>1. \A p \in Request \ {q} : request'[p] = request[p] \/ request'[p].at = "cut"
    <3>1. CASE Refuse(q) \/ Crash(q)
      BY <1>0, <3>1 DEF Refuse, Crash, Restart, Requests
    <3>2. CASE Validated(q)
      BY <1>0, <3>2 DEF Validated
    <3>3. CASE HandlerReturns(q) \/ HandlerThrows(q)
      BY <1>0, <3>3 DEF HandlerReturns, HandlerThrows, FilterAnswers, Goes
    <3>4. CASE \/ LetInPublic(q) \/ CacheHit(q) \/ CacheSet(q) \/ CacheMiss(q)
               \/ \E t \in Tokens : ReadCache(q, t)
      BY <1>0, <3>4 DEF LetInPublic, CacheHit, CacheSet, CacheMiss, ReadCache, Goes
    <3> QED
      BY <1>1, <3>1, <3>2, <3>3, <3>4 DEF Step
  <2>2. q = r
    BY <2>1 DEF Waiting
  <2>3. ~ LetInPublic(r) /\ ~ \E t \in Tokens : ReadCache(r, t)
    BY DEF LetInPublic, ReadCache, Goes, Waiting
  <2>4. ~ CacheMiss(r) /\ ~ HandlerReturns(r) /\ ~ HandlerThrows(r)
    BY <1>0 DEF CacheMiss, HandlerReturns, HandlerThrows, FilterAnswers, Goes, Requests, Waiting
  <2>5. Validated(r) => request'[r].at = "storing"
    <3> SUFFICES ASSUME Validated(r) PROVE request'[r].at = "storing"
      OBVIOUS
    <3>1. request'[r] = [at |-> "storing", bearer |-> request[r].bearer, checked |-> now]
      BY <1>0 DEF Validated, Requests
    <3> QED
      BY <3>1
  <2>6. ~ Refuse(r) /\ ~ Crash(r)
    BY <1>0 DEF Refuse, Crash, Restart, Requests
  <2> QED
    BY <1>1, <2>2, <2>3, <2>4, <2>5, <2>6 DEF Step
<1>2. ~ (Issues \/ Revoke \/ Tick \/ UNCHANGED vars)
  BY DEF Issues, Revoke, SessionRevoked, Tick, vars, guardVars, Waiting
<1> QED
  BY <1>1, <1>2, NextStep

(* An expired or revoked token is let in for a bounded time, and a refresh     *)
(* token never: what the cache says is never older than it lives.              *)
THEOREM HttpRequestsAcceptance == Spec => AcceptanceIsBounded
<1> DEFINE Bounded == \A r \in Request : LetInNow(r) =>
                        LET token == tokens[request[r].bearer]
                        IN  token.kind = "access" /\ now < token.exp + Latency + CacheTtl
<1>1. ASSUME TypeOK, Bears, RequestsInv, [Next]_vars, NEW r \in Request, LetInNow(r)
      PROVE  LET token == tokens[request[r].bearer]
             IN  token.kind = "access" /\ now < token.exp + Latency + CacheTtl
  <2> DEFINE t == request[r].bearer
  <2>1. t \in Tokens /\ t \in 1..MaxTokens /\ now \in Nat /\ tokens[t].exp \in Nat
    <3>1. t \in Tokens
      BY <1>1 DEF LetInNow, Bears
    <3> QED
      BY <1>1, <3>1, TypeFacts DEF Token
  <2>2. CASE CacheHit(r)
    BY <1>1, <2>1, <2>2, GuardAssumption
       DEF CacheHit, Cached, RequestsInv, EntryOf, TypeOK, GuardTypeOK
  <2>3. CASE CacheSet(r)
    <3>1. request[r].at = "storing" /\ request[r].checked \in Nat
      BY <1>1, <2>3, TypeFacts DEF CacheSet, Goes, Requests
    <3> QED
      BY <1>1, <2>1, <3>1, GuardAssumption DEF RequestsInv, ValidatedOf
  <2> QED
    BY <1>1, <2>2, <2>3, LetInSteps
<1>2. TypeOK /\ Bears /\ RequestsInv /\ [Next]_vars => [Bounded]_vars
  BY <1>1
<1> QED
  BY <1>2, TypeInvariant, RequestsInvariant, PTL DEF Spec, AcceptanceIsBounded

=============================================================================
