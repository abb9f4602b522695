---------------------------- MODULE GrpcThrottle ----------------------------
(***************************************************************************)
(* GrpcThrottleGuard: a map of window entries that a request creates,      *)
(* counts in or is refused by, and that a request also cleans up when the  *)
(* last clean-up is Interval ago.  canActivate runs without interruption.  *)
(*                                                                         *)
(* Time is a counter that does not run backwards; the model adds the       *)
(* history of admitted requests, which the guard does not keep.            *)
(***************************************************************************)
EXTENDS Naturals, FiniteSets

CONSTANTS Key, Limit, Ttl,
          Interval,  \* CLEANUP_INTERVAL
          MaxTime    \* bound: when the clock stops

ASSUME ThrottleAssumption ==
    /\ Limit \in [Key -> Nat \ {0}]
    /\ Ttl \in [Key -> Nat \ {0}]
    /\ Interval \in Nat \ {0}
    /\ MaxTime \in Nat

VARIABLES
    now,
    store,        \* the entry of each key; Missing if there is none
    lastCleanup,
    admitted      \* history: the requests of each key admitted in the last Ttl[k]
                  \* ticks, with their number in their window

vars == <<now, store, lastCleanup, admitted>>

Missing == [count |-> 0, resetAt |-> 0]
Entry   == [count : Nat \ {0}, resetAt : Nat]

\* Every entry outlives the last clean-up.
TypeOK ==
    /\ now \in Nat
    /\ store \in [Key -> Entry \cup {Missing}]
    /\ lastCleanup \in 0..now
    /\ admitted \in [Key -> SUBSET [at : 0..now, nth : Nat \ {0}]]
    /\ \A k \in Key : store[k] # Missing => store[k].resetAt > lastCleanup

Init ==
    /\ now = 0
    /\ store = [k \in Key |-> Missing]
    /\ lastCleanup = 0
    /\ admitted = [k \in Key |-> {}]

CleanupDue == now - lastCleanup >= Interval

\* Mutant of Cleaned: the clean-up drops entries that still count.
CleanedAll == IF CleanupDue THEN [k \in Key |-> Missing] ELSE store

\* The store after cleanup(now).
Cleaned ==
    IF CleanupDue
    THEN [k \in Key |-> IF now >= store[k].resetAt THEN Missing ELSE store[k]]
    ELSE store

\* Mutant of Cleanup: the time of the clean-up is noted when there is none.
CleanupNotedAlways == lastCleanup' = now

Cleanup == lastCleanup' = IF CleanupDue THEN now ELSE lastCleanup

\* Mutant of Expired: a window lasts one instant longer.
ExpiredLate(e) == e = Missing \/ now > e.resetAt

\* !entry || now >= entry.resetAt
Expired(e) == e = Missing \/ now >= e.resetAt

Admit(k, e) ==
    /\ store' = [Cleaned EXCEPT ![k] = e]
    /\ admitted' = [admitted EXCEPT ![k] = @ \cup {[at |-> now, nth |-> e.count]}]

\* A request opens a window: there is none, or it is over.
Opens(k) ==
    /\ Expired(Cleaned[k])
    /\ Admit(k, [count |-> 1, resetAt |-> now + Ttl[k]])

\* Mutant of Counts: the limit is tested after counting.
CountsOneMore(k) ==
    /\ ~ Expired(Cleaned[k])
    /\ Cleaned[k].count <= Limit[k]
    /\ Admit(k, [Cleaned[k] EXCEPT !.count = @ + 1])

\* A request is counted in the open window.
Counts(k) ==
    /\ ~ Expired(Cleaned[k])
    /\ Cleaned[k].count < Limit[k]
    /\ Admit(k, [Cleaned[k] EXCEPT !.count = @ + 1])

\* The window is open and full: entry.count >= options.limit.
Full(k) == ~ Expired(Cleaned[k]) /\ Cleaned[k].count >= Limit[k]

\* A request is refused with RESOURCE_EXHAUSTED.
Refuses(k) ==
    /\ Full(k)
    /\ store' = Cleaned
    /\ UNCHANGED admitted

Request(k) ==
    /\ Opens(k) \/ Counts(k) \/ Refuses(k)
    /\ Cleanup
    /\ UNCHANGED now

Tick ==
    /\ now < MaxTime
    /\ now' = now + 1
    /\ admitted' = [k \in Key |-> {a \in admitted[k] : a.at + Ttl[k] > now'}]
    /\ UNCHANGED <<store, lastCleanup>>

Next == Tick \/ \E k \in Key : Request(k)

Spec == Init /\ [][Next]_vars

-----------------------------------------------------------------------------
(* Properties *)

\* Windows are fixed, so a burst may fall on both sides of a reset; but no
\* interval of a window's length ever sees two full windows.
BurstBound == \A k \in Key : Cardinality(admitted[k]) < 2 * Limit[k]

\* Whenever a request would be refused now, a full window of requests was admitted
\* in the window's length before: neither the clean-up nor the instant of a reset
\* costs a client a request.  An invariant, since a refusal may change no variable.
RefusalsAreEarned == \A k \in Key : Full(k) => Cardinality(admitted[k]) >= Limit[k]

\* From a request, after which no clean-up is due, until the next clean-up is due, no
\* entry is in the map that expired a clean-up interval ago: the map does not grow with
\* the peers of the past.
StoreForgets ==
    ~ CleanupDue => \A k \in Key : store[k] # Missing => now < store[k].resetAt + Interval

-----------------------------------------------------------------------------
(* Refinement: with or without clean-up, a fixed-window limiter. *)

OpenWindow == [k \in Key |-> IF Expired(store[k]) THEN Missing ELSE store[k]]

Limiter == INSTANCE FixedWindow WITH window <- OpenWindow

\* The guard implements the limiter: its clean-up is invisible.
IsFixedWindow == Limiter!Spec

=============================================================================
