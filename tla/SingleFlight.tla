---------------------------- MODULE SingleFlight ----------------------------
(***************************************************************************)
(* The @Cache aspect with useSingleFlight for one cache key: calls of the  *)
(* decorated method, the key in the store, and the table of requests in    *)
(* flight of CacheService.wrap.                                            *)
(*                                                                         *)
(* Every caller is a call in one Node process; it is interrupted at each   *)
(* await, and a request to the store takes effect and is answered at       *)
(* different moments.  A promise of wrap is named by the caller that made  *)
(* it.  When a promise settles, everyone who waits for it goes on in that  *)
(* turn.  The aspect's path without single-flight shares nothing but the   *)
(* store and is not modelled.                                              *)
(***************************************************************************)
CONSTANTS Caller, NoCaller

ASSUME CallerAssumption == NoCaller \notin Caller

VARIABLES
    cached,    \* TRUE: the store holds an unexpired value for the key
    inflight,  \* inflightRequests.get(key): whose promise, or NoCaller
    pc,        \* what each call awaits
    awaits     \* whose promise a joined call awaits

vars == <<cached, inflight, pc, awaits>>

Place == {"idle", "bypassed", "deleting", "reading", "missed", "joined",
          "running", "storing", "stored", "fallback"}

\* The promise of c is not settled.
Flying(c) == pc[c] \in {"running", "storing", "stored"}

\* The table only ever holds a promise that is not settled.
TypeOK ==
    /\ cached \in BOOLEAN
    /\ inflight \in {NoCaller} \cup {c \in Caller : Flying(c)}
    /\ pc \in [Caller -> Place]
    /\ awaits \in [Caller -> Caller \cup {NoCaller}]

Init ==
    /\ cached = FALSE
    /\ inflight = NoCaller
    /\ pc = [c \in Caller |-> "idle"]
    /\ awaits = [c \in Caller |-> NoCaller]

Goes(c, from, to) == pc[c] = from /\ pc' = [pc EXCEPT ![c] = to]

-----------------------------------------------------------------------------
(* The aspect *)

\* The decorated method is called.  Its options decide whether the cache is
\* bypassed (condition) or the key deleted first (invalidateExisting).
Call(c) ==
    /\ \E to \in {"bypassed", "deleting", "reading"} : Goes(c, "idle", to)
    /\ UNCHANGED <<cached, inflight, awaits>>

BypassEnds(c) == Goes(c, "bypassed", "idle") /\ UNCHANGED <<cached, inflight, awaits>>

Deleted(c) ==
    /\ Goes(c, "deleting", "reading")
    /\ cached' = FALSE
    /\ UNCHANGED <<inflight, awaits>>

\* del() rejects outside of any try: so does the call.
DeleteFails(c) == Goes(c, "deleting", "idle") /\ UNCHANGED <<cached, inflight, awaits>>

\* wrap rejected, and the aspect called the method itself, which ends.
FallbackEnds(c) == Goes(c, "fallback", "idle") /\ UNCHANGED <<cached, inflight, awaits>>

-----------------------------------------------------------------------------
(* CacheService.wrap *)

ReadHits(c) == cached /\ Goes(c, "reading", "idle") /\ UNCHANGED <<cached, inflight, awaits>>

\* The store found nothing; its answer is on the way.
ReadMisses(c) == ~ cached /\ Goes(c, "reading", "missed") /\ UNCHANGED <<cached, inflight, awaits>>

ReadFails(c) == Goes(c, "reading", "fallback") /\ UNCHANGED <<cached, inflight, awaits>>

\* Mutant of MissArrives: the request in flight is not looked for again.
MissAlwaysRuns(c) ==
    /\ Goes(c, "missed", "running")
    /\ inflight' = c
    /\ UNCHANGED <<cached, awaits>>

\* The answer arrives: join the request in flight, or make one.
MissArrives(c) ==
    /\ \/ /\ inflight # NoCaller
          /\ Goes(c, "missed", "joined")
          /\ awaits' = [awaits EXCEPT ![c] = inflight]
          /\ UNCHANGED inflight
       \/ /\ inflight = NoCaller
          /\ Goes(c, "missed", "running")
          /\ inflight' = c
          /\ UNCHANGED awaits
    /\ UNCHANGED cached

\* Mutant of Settle: those who joined are forgotten.
SettleAlone(c, to) ==
    /\ inflight' = NoCaller
    /\ pc' = [pc EXCEPT ![c] = to]
    /\ UNCHANGED awaits

\* The promise of c settles: the finally clause deletes the entry, and c and
\* everyone who joined go on, to return the result or to fall back.
Settle(c, to) ==
    LET released == {d \in Caller : pc[d] = "joined" /\ awaits[d] = c}
    IN  /\ inflight' = NoCaller
        /\ pc' = [d \in Caller |-> IF d \in released \cup {c} THEN to ELSE pc[d]]
        /\ awaits' = [d \in Caller |-> IF d \in released THEN NoCaller ELSE awaits[d]]

\* Mutant of MethodReturns: the entry is deleted before the result is stored.
MethodReturnsForgetting(c) ==
    /\ Goes(c, "running", "storing")
    /\ inflight' = NoCaller
    /\ UNCHANGED <<cached, awaits>>

MethodReturns(c) == Goes(c, "running", "storing") /\ UNCHANGED <<cached, inflight, awaits>>

\* Mutant of MethodThrows: no finally clause.
MethodThrowsKeepingEntry(c) ==
    /\ Goes(c, "running", "fallback")
    /\ UNCHANGED <<cached, inflight, awaits>>

MethodThrows(c) == pc[c] = "running" /\ Settle(c, "fallback") /\ UNCHANGED cached

\* The store has the result; its answer is on the way.
Stored(c) ==
    /\ Goes(c, "storing", "stored")
    /\ cached' = TRUE
    /\ UNCHANGED <<inflight, awaits>>

StoreAnswers(c) == pc[c] = "stored" /\ Settle(c, "idle") /\ UNCHANGED cached

\* set() rejects, whether or not it took effect.
StoreFails(c) ==
    /\ pc[c] \in {"storing", "stored"}
    /\ Settle(c, "fallback")
    /\ UNCHANGED cached

\* The value outlives its TTL, or somebody deletes the key.
Expires == cached /\ cached' = FALSE /\ UNCHANGED <<inflight, pc, awaits>>

-----------------------------------------------------------------------------
Step(c) ==
    \/ BypassEnds(c) \/ Deleted(c) \/ DeleteFails(c) \/ FallbackEnds(c)
    \/ ReadHits(c) \/ ReadMisses(c) \/ ReadFails(c) \/ MissArrives(c)
    \/ MethodReturns(c) \/ MethodThrows(c)
    \/ Stored(c) \/ StoreAnswers(c) \/ StoreFails(c)

Next == Expires \/ \E c \in Caller : Call(c) \/ Step(c)

\* The store answers or fails every request, and the method ends.
FairSpec == Init /\ [][Next]_vars /\ \A c \in Caller : WF_vars(Step(c))

Spec == Init /\ [][Next]_vars

-----------------------------------------------------------------------------
(* Properties *)

\* wrap never has two requests for the key in flight, although each call looks
\* at the table only after the answer of the store.
OneFlight == \A c, d \in Caller : Flying(c) /\ Flying(d) => c = d

\* Whoever joined waits for the promise in the table, and it is not settled yet:
\* nobody waits for a request that is over.
JoinedFlightIsLive ==
    \A c \in Caller : pc[c] = "joined" =>
        /\ awaits[c] = inflight
        /\ inflight # NoCaller
        /\ Flying(inflight)

\* Every call ends, also those that joined a request which then fails.
CallsEnd == \A c \in Caller : pc[c] # "idle" ~> pc[c] = "idle"

=============================================================================
