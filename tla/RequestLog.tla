----------------------------- MODULE RequestLog -----------------------------
(***************************************************************************)
(* What a request leaves in the log: LoggerService puts the requestId of   *)
(* the CLS store it runs in on every line, RequestLogInterceptor writes a  *)
(* line when the handler is called and one when it returned, and the       *)
(* exception filter one for each error.                                    *)
(***************************************************************************)
EXTENDS AuthGuard

CONSTANT SkipPaths  \* the requests to /health-check and /metrics

ASSUME SkipAssumption == SkipPaths \subseteq Request

VARIABLE log  \* the lines written while each request ran

Says == {"REQUEST", "RESPONSE", "SLOW REQUEST", "An error occurred", "RESPONSE(ERROR)",
         "Auth gRPC call failed", "Catching non-general exception"}

Log == [level : {"info", "warn", "error"}, says : Says, requestId : Request \cup {Nobody}]

LogTypeOK == log \in [Request -> Seq(Log)]

LogInit == log = [r \in Request |-> <<>>]

\* format: a line written in the store of r; there is no id before RequestIdGuard ran.
Format(level, says, r) == [level |-> level, says |-> says, requestId |-> store'[r].id]

Writes(r, lines) == log' = [log EXCEPT ![r] = @ \o lines]

Info(says, r)  == <<Format("info", says, r)>>
Warn(says, r)  == <<Format("warn", says, r)>>
Error(says, r) == <<Format("error", says, r)>>

\* intercept, before the handler.
LogsRequest(r) == Writes(r, IF r \in SkipPaths THEN <<>> ELSE Info("REQUEST", r))

\* intercept, in the tap on what the handler returned: how long it took is not modelled.
LogsResponse(r) ==
    \/ r \in SkipPaths /\ UNCHANGED log
    \/ r \notin SkipPaths /\ Writes(r, Info("RESPONSE", r))
    \/ r \notin SkipPaths /\ Writes(r, Error("SLOW REQUEST", r))

\* The status a GeneralException is given: the one of the error, if it has one.
GeneralStatus(status) == IF status = "none" THEN "5xx" ELSE status

\* catch, for an exception that has a status.
LogsFailure(r, status) ==
    Writes(r, (IF status = "5xx" THEN Error("An error occurred", r) ELSE <<>>)
              \o Warn("RESPONSE(ERROR)", r))

\* catch, for any other; canActivate has said why when the auth service did not answer.
LogsRefusal(r) ==
    \/ Writes(r, Error("Catching non-general exception", r))
    \/ /\ request[r].at \in {"validating", "storing"}
       /\ Writes(r, Error("Auth gRPC call failed", r)
                    \o Error("Catching non-general exception", r))

\* An error that is not answered: the handler's or the serializer's; the response's,
\* which is written after its line; or the filter's own, with the error's lines.
LogsCrash(r) ==
    \/ Writes(r, Error("Catching non-general exception", r))
    \/ \E line \in {Info("RESPONSE", r), Error("SLOW REQUEST", r)} :
          /\ r \notin SkipPaths
          /\ Writes(r, line \o Error("Catching non-general exception", r))
    \/ \E status \in {"4xx", "5xx"} : LogsFailure(r, status)

=============================================================================
