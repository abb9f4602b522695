---------------------------- MODULE HttpRequests ----------------------------
(***************************************************************************)
(* HTTP requests to an application: the guards, the interceptors around    *)
(* the handler, and the exception filter.                                  *)
(*                                                                         *)
(* ResponseInterceptor turns what a handler throws into a GeneralException *)
(* and GeneralExceptionFilter answers it.  Any other exception makes that  *)
(* filter, an async function, reject; nobody awaits it, and the process    *)
(* ends with every request under way.  So it is for what a guard throws,   *)
(* or the router for an unknown path, which pass no interceptor, and for   *)
(* what is thrown around ResponseInterceptor or by its own catchError.     *)
(*                                                                         *)
(* The process is there again at once; until then no request would arrive. *)
(***************************************************************************)
EXTENDS RequestLog

vars == <<now, tokens, guardVars, log>>

TypeOK == TokensTypeOK /\ GuardTypeOK /\ LogTypeOK

Init == TokensInit /\ GuardInit /\ LogInit

InFlight(r) == request[r].at \in Waiting \cup {"handling"}

\* The filter rejects for request r.  The cache is not in the process.
Restart(r, end) ==
    /\ request' = [q \in Request |->
                     IF q = r THEN [request[q] EXCEPT !.at = end]
                     ELSE IF InFlight(q) THEN [request[q] EXCEPT !.at = "cut"]
                     ELSE request[q]]
    /\ UNCHANGED <<cache, store>>

\* A guard threw, or (an idle request) no route matches.
Refuse(r) ==
    /\ Throws(r)
    /\ Restart(r, "refused")
    /\ LogsRefusal(r)
    /\ UNCHANGED <<now, tokens>>

\* The guards run in the order of their modules, the application's before CoreModule's:
\* a request has its id when the last one let it in, and the interceptors go on.
Arrive(r) ==
    /\ \/ LetInPublic(r) /\ LogsRequest(r)
       \/ (\E t \in Tokens : ReadCache(r, t)) /\ UNCHANGED log
    /\ UNCHANGED <<now, tokens>>

GuardEnds(r) ==
    /\ \/ (CacheHit(r) \/ CacheSet(r)) /\ LogsRequest(r)
       \/ (CacheMiss(r) \/ Validated(r)) /\ UNCHANGED log
    /\ UNCHANGED <<now, tokens>>

\* ResponseInterceptor: what the handler returned is wrapped in an ApiResponse.
HandlerReturns(r) ==
    /\ Goes(r, "handling", "answered")
    /\ UNCHANGED <<now, tokens, cache, store>>
    /\ LogsResponse(r)

\* The filter answers a GeneralException with its status.
FilterAnswers(r, status) ==
    /\ Goes(r, "handling", "failed")
    /\ UNCHANGED <<now, tokens, cache, store>>
    /\ LogsFailure(r, status)

\* catchError: an error of the handler becomes a GeneralException.
HandlerThrows(r) ==
    \E status \in {"none", "4xx", "5xx"} : FilterAnswers(r, GeneralStatus(status))

\* The handler rejected with nothing, which catchError cannot read; the serializer,
\* outside ResponseInterceptor, throws, or the response has no JSON; or the status of
\* the error is none that a response can have.
Crash(r) ==
    /\ request[r].at = "handling"
    /\ Restart(r, "crashed")
    /\ LogsCrash(r)
    /\ UNCHANGED <<now, tokens>>

\* The RPCs Login and RefreshToken of the auth service.
Issues == Sign /\ UNCHANGED <<guardVars, log>>

Revoke == \E t \in Tokens : SessionRevoked(t) /\ UNCHANGED <<now, tokens, log>>

\* Date.now(): a validation is written to the cache within Latency.
Tick ==
    /\ now < MaxTime
    /\ \A r \in Request : request[r].at = "storing" => now < request[r].checked + Latency
    /\ now' = now + 1
    /\ UNCHANGED <<tokens, guardVars, log>>

Next ==
    \/ \E r \in Request : \/ Arrive(r) \/ GuardEnds(r) \/ Refuse(r)
                          \/ HandlerReturns(r) \/ HandlerThrows(r) \/ Crash(r)
    \/ Issues \/ Revoke \/ Tick

Spec == Init /\ [][Next]_vars

-----------------------------------------------------------------------------
(* Properties *)

\* The store a handler reads is its own request's, whatever requests were let in
\* while it waited: its id, and the user its bearer token was signed for.  So is the
\* id on every line of the log, the ones of the interceptors and of the filter too,
\* the last line of a request whose error ends the process among them.
ContextIsOwn ==
    \A r \in Request : request[r].at \in {"handling", "answered", "failed", "crashed"} =>
        /\ store[r].id = r
        /\ request[r].bearer # NoToken => store[r].user = tokens[request[r].bearer].user
        /\ request[r].bearer = NoToken => store[r].user = Nobody
        /\ \A i \in DOMAIN log[r] : log[r][i].requestId = r

LetInNow(r) == request[r].at \in Waiting /\ request'[r].at = "handling"

\* The cache lets an expired token in, but not for ever: no longer than an entry
\* lives after the last validation was written.  A refresh token never is.  (A guard
\* reads an entry and answers in one step: how long the read takes is not counted.)
AcceptanceIsBounded ==
    [][\A r \in Request : LetInNow(r) =>
          LET token == tokens[request[r].bearer]
          IN  token.kind = "access" /\ now < token.exp + Latency + CacheTtl]_vars

=============================================================================
