------------------------------ MODULE PoToken ------------------------------
(***************************************************************************)
(* PoTokenAdapter, which makes the token Youtube asks for, and the clients *)
(* StreamProviderAdapter creates with it, one per attempt at a stream.     *)
(* A refresh runs when the module starts and by a cron job; while it does, *)
(* window and document of the whole process are those of a JSDOM.          *)
(*                                                                         *)
(* Time passes in hours over a divisor of both periods.  A refresh never   *)
(* throws, and takes as long as Youtube takes.                             *)
(***************************************************************************)
EXTENDS Naturals

CONSTANTS Stream,    \* streams under way at once
          Interval,  \* between two cron jobs
          Ttl,       \* TOKEN_TTL_MS
          MaxAge,    \* bound: ages from here on are one
          Retries    \* maxRetries of createStreamWithRetry

ASSUME PeriodAssumption ==
    /\ Interval \in Nat \ {0}
    /\ Ttl \in (Interval + 1)..MaxAge
    /\ MaxAge \in Nat
    /\ Retries \in Nat \ {0}

VARIABLES
    token,       \* tokenData: none, the empty one of a failure, or made
    age,         \* since generatedAt
    refreshing,  \* isRefreshing
    awaits,      \* what each caller's refresh awaits
    saved,       \* originalWindow and originalDocument of each refresh
    globals,     \* window and document
    sinceCron,   \* since the last cron job
    missed,      \* history: a refresh was refused or failed since the token was made
    attempt,     \* the attempt of a stream that is under way, 0 if none is
    pausing      \* streams that wait before their next attempt

refreshVars == <<token, refreshing, awaits, saved, globals, missed>>
timeVars    == <<age, sinceCron>>
streamVars  == <<attempt, pausing>>
poTokenVars == <<refreshVars, timeVars, streamVars>>

Caller == {"init", "cron"}

PoTokenTypeOK ==
    /\ token \in {"none", "empty", "made"}
    /\ age \in 0..MaxAge
    /\ refreshing \in BOOLEAN
    /\ awaits \in [Caller -> {"start", "idle", "visitorData", "challenge", "poToken"}]
    /\ saved \in [Caller -> {"own", "dom"}]
    /\ globals \in {"own", "dom"}
    /\ sinceCron \in 0..Interval
    /\ missed \in BOOLEAN
    /\ attempt \in [Stream -> 0..Retries]
    /\ pausing \in SUBSET {s \in Stream : attempt[s] \in 1..(Retries - 1)}

\* The process may start at any time between two cron jobs.
PoTokenInit ==
    /\ token = "none"
    /\ age = 0
    /\ refreshing = FALSE
    /\ awaits = [c \in Caller |-> IF c = "init" THEN "start" ELSE "idle"]
    /\ saved = [c \in Caller |-> "own"]
    /\ globals = "own"
    /\ sinceCron \in 0..Interval
    /\ missed = FALSE
    /\ attempt = [s \in Stream |-> 0]
    /\ pausing = {}

-----------------------------------------------------------------------------
(* refreshPoToken *)

Goes(c, x) == awaits' = [awaits EXCEPT ![c] = x]

\* Mutant of RefreshPoToken: it does not look whether one is in progress.
RefreshAnyway(c) ==
    /\ refreshing' = TRUE
    /\ saved' = [saved EXCEPT ![c] = globals]
    /\ globals' = "dom"
    /\ Goes(c, "visitorData")
    /\ UNCHANGED <<token, missed>>

\* Up to the await of fetchVisitorData: a call that finds a refresh in progress
\* returns the token as it is.
RefreshPoToken(c) ==
    IF refreshing
    THEN /\ missed' = TRUE
         /\ Goes(c, "idle")
         /\ UNCHANGED <<token, refreshing, saved, globals>>
    ELSE /\ refreshing' = TRUE
         /\ saved' = [saved EXCEPT ![c] = globals]
         /\ globals' = "dom"
         /\ Goes(c, "visitorData")
         /\ UNCHANGED <<token, missed>>

OnModuleInit ==
    /\ awaits["init"] = "start"
    /\ RefreshPoToken("init")
    /\ UNCHANGED <<timeVars, streamVars>>

\* Mutant of HandleCron: a token that is valid is not refreshed.
HandleCronIfInvalid ==
    /\ awaits["cron"] = "idle"
    /\ sinceCron = Interval
    /\ sinceCron' = 0
    /\ IF token # "none" /\ age < Ttl THEN UNCHANGED refreshVars ELSE RefreshPoToken("cron")
    /\ UNCHANGED <<age, streamVars>>

HandleCron ==
    /\ awaits["cron"] = "idle"
    /\ sinceCron = Interval
    /\ sinceCron' = 0
    /\ RefreshPoToken("cron")
    /\ UNCHANGED <<age, streamVars>>

\* A job that finds that of the period before still running is refused.
CronRefused ==
    /\ awaits["cron"] # "idle"
    /\ sinceCron = Interval
    /\ sinceCron' = 0
    /\ missed' = TRUE
    /\ UNCHANGED <<token, refreshing, awaits, saved, globals, age, streamVars>>

\* fetchVisitorData and the challenge
VisitorData(c) ==
    /\ awaits[c] = "visitorData"
    /\ Goes(c, "challenge")
    /\ UNCHANGED <<token, refreshing, saved, globals, missed, timeVars, streamVars>>

Challenge(c) ==
    /\ awaits[c] = "challenge"
    /\ Goes(c, "poToken")
    /\ UNCHANGED <<token, refreshing, saved, globals, missed, timeVars, streamVars>>

\* The finally clause
Restore(c) ==
    /\ globals' = saved[c]
    /\ refreshing' = FALSE
    /\ Goes(c, "idle")
    /\ UNCHANGED <<saved, sinceCron, streamVars>>

Generated(c) ==
    /\ awaits[c] = "poToken"
    /\ token' = "made"
    /\ age' = 0
    /\ missed' = FALSE
    /\ Restore(c)

\* A failure keeps the token there is, the empty one if there is none.
RefreshFails(c) ==
    /\ awaits[c] \in {"visitorData", "challenge", "poToken"}
    /\ missed' = TRUE
    /\ IF token = "none" THEN token' = "empty" /\ age' = 0 ELSE UNCHANGED <<token, age>>
    /\ Restore(c)

-----------------------------------------------------------------------------
(* Streams *)

\* createYtdlClient, with the token as it is, valid or not
CreateStream(s) ==
    /\ attempt[s] = 0
    /\ attempt' = [attempt EXCEPT ![s] = 1]
    /\ UNCHANGED <<refreshVars, timeVars, pausing>>

Retry(s) ==
    /\ s \in pausing
    /\ attempt' = [attempt EXCEPT ![s] = @ + 1]
    /\ pausing' = pausing \ {s}
    /\ UNCHANGED <<refreshVars, timeVars>>

\* Mutant of Pause: the number of attempts is not looked at.
PauseAgain(s) ==
    /\ attempt[s] > 0
    /\ s \notin pausing
    /\ pausing' = pausing \cup {s}
    /\ UNCHANGED <<refreshVars, timeVars, attempt>>

\* A connection error is worth another attempt, if it was not the last.
Pause(s) ==
    /\ attempt[s] \in 1..(Retries - 1)
    /\ s \notin pausing
    /\ pausing' = pausing \cup {s}
    /\ UNCHANGED <<refreshVars, timeVars, attempt>>

\* The download has begun, or the stream is given up.
StreamSettles(s) ==
    /\ attempt[s] > 0
    /\ s \notin pausing
    /\ attempt' = [attempt EXCEPT ![s] = 0]
    /\ UNCHANGED <<refreshVars, timeVars, pausing>>

-----------------------------------------------------------------------------

\* The cron job runs when it is due.
Tick ==
    /\ sinceCron < Interval
    /\ sinceCron' = sinceCron + 1
    /\ age' = IF age < MaxAge THEN age + 1 ELSE age
    /\ UNCHANGED <<refreshVars, streamVars>>

RefreshStep ==
    \/ OnModuleInit \/ HandleCron \/ CronRefused \/ Tick
    \/ \E c \in Caller : VisitorData(c) \/ Challenge(c) \/ Generated(c) \/ RefreshFails(c)

-----------------------------------------------------------------------------

\* The globals of the process are its own whenever no refresh is in progress, and
\* a refresh is never in progress twice: the second would save the JSDOM of the
\* first and leave it behind.
GlobalsRestored ==
    /\ ~ refreshing => globals = "own" /\ \A c \in Caller : awaits[c] \in {"start", "idle"}
    /\ \A c, d \in Caller : {awaits[c], awaits[d]} \cap {"start", "idle"} = {} => c = d

\* Nobody asks isTokenValid: a client gets an expired token only when a refresh
\* failed, was refused or has not ended since the token was made.
StaleOnlyWhenMissed == token = "made" /\ age >= Ttl => missed \/ refreshing

=============================================================================
