------------------------- MODULE SingleFlightProofs -------------------------
(***************************************************************************)
(* The single-flight table of CacheService, proved for any set of callers. *)
(* OneFlight is not inductive: a caller whose miss arrives makes a request *)
(* when the table is empty, so what must be preserved is that a promise    *)
(* that is not settled is the one in the table.                            *)
(***************************************************************************)
EXTENDS SingleFlight, TLAPS

InTable == \A c \in Caller : Flying(c) => inflight = c

FlightInv == TypeOK /\ InTable /\ JoinedFlightIsLive

\* Nothing is called, cached or in flight at the start.
LEMMA InitFlightInv == Init => FlightInv
BY DEF Init, FlightInv, TypeOK, Place, Flying, InTable, JoinedFlightIsLive

\* A step of c that neither starts, joins nor settles a request.
Aside(c) ==
    /\ \E to \in Place \ {"joined", "running", "storing", "stored"} :
         pc' = [pc EXCEPT ![c] = to]
    /\ ~ Flying(c) /\ pc[c] # "joined"
    /\ cached' \in BOOLEAN
    /\ UNCHANGED <<inflight, awaits>>

\* Such a step does not concern the table.
LEMMA AsideKeeps ==
  ASSUME FlightInv, NEW c \in Caller, Aside(c)
  PROVE  FlightInv'
<1> USE DEF FlightInv
<1>1. \A d \in Caller : /\ Flying(d)' <=> Flying(d)
                        /\ pc'[d] = "joined" <=> pc[d] = "joined"
  BY DEF Aside, TypeOK, Flying
<1>2. TypeOK'
  BY <1>1 DEF Aside, TypeOK, Place
<1>3. InTable' /\ JoinedFlightIsLive'
  BY <1>1, <1>2 DEF Aside, InTable, JoinedFlightIsLive, TypeOK
<1> QED
  BY <1>2, <1>3

\* A request that goes on stays the one in the table.
LEMMA ProgressKeeps ==
  ASSUME FlightInv, NEW c \in Caller, MethodReturns(c) \/ Stored(c)
  PROVE  FlightInv'
<1> USE DEF FlightInv
<1>1. \A d \in Caller : /\ Flying(d)' <=> Flying(d)
                        /\ pc'[d] = "joined" <=> pc[d] = "joined"
  BY DEF MethodReturns, Stored, Goes, TypeOK, Flying
<1>2. TypeOK'
  BY <1>1 DEF MethodReturns, Stored, Goes, TypeOK, Place
<1>3. InTable' /\ JoinedFlightIsLive'
  BY <1>1, <1>2 DEF MethodReturns, Stored, InTable, JoinedFlightIsLive, TypeOK
<1> QED
  BY <1>2, <1>3

\* A miss that arrives joins the request in flight or becomes the only one.
LEMMA MissKeeps ==
  ASSUME FlightInv, NEW c \in Caller, MissArrives(c)
  PROVE  FlightInv'
<1> USE DEF FlightInv
<1>1. CASE inflight # NoCaller
  <2>1. /\ pc' = [pc EXCEPT ![c] = "joined"] /\ pc[c] = "missed"
        /\ awaits' = [awaits EXCEPT ![c] = inflight]
        /\ inflight' = inflight /\ cached' = cached
    BY <1>1 DEF MissArrives, Goes
  <2>2. \A d \in Caller : Flying(d)' <=> Flying(d)
    BY <2>1 DEF TypeOK, Flying
  <2>3. TypeOK'
    BY <2>1, <2>2 DEF TypeOK, Place
  <2>4. InTable'
    BY <2>1, <2>2 DEF InTable
  <2>5. JoinedFlightIsLive'
    BY <1>1, <2>1, <2>2, <2>3 DEF JoinedFlightIsLive, TypeOK
  <2> QED
    BY <2>3, <2>4, <2>5
<1>2. CASE inflight = NoCaller
  <2>1. /\ pc' = [pc EXCEPT ![c] = "running"] /\ pc[c] = "missed"
        /\ awaits' = awaits /\ inflight' = c /\ cached' = cached
    BY <1>2 DEF MissArrives, Goes
  <2>2. \A d \in Caller : ~ Flying(d) /\ pc[d] # "joined"
    BY <1>2, CallerAssumption DEF InTable, JoinedFlightIsLive
  <2>3. \A d \in Caller : (Flying(d)' <=> d = c) /\ pc'[d] # "joined"
    BY <2>1, <2>2 DEF TypeOK, Flying
  <2>4. TypeOK'
    BY <2>1, <2>3 DEF TypeOK, Place
  <2> QED
    BY <2>1, <2>3, <2>4 DEF InTable, JoinedFlightIsLive
<1> QED
  BY <1>1, <1>2

\* A request that settles leaves the table empty and nobody waiting.
LEMMA SettleKeeps ==
  ASSUME FlightInv, NEW c \in Caller, Flying(c),
         NEW to \in {"idle", "fallback"}, Settle(c, to), UNCHANGED cached
  PROVE  FlightInv'
<1> USE DEF FlightInv
<1>1. inflight = c
  BY DEF InTable
<1>2. \A d \in Caller : d # c => ~ Flying(d)
  BY <1>1 DEF InTable
<1>3. \A d \in Caller : pc[d] = "joined" => awaits[d] = c
  BY <1>1 DEF JoinedFlightIsLive
<1>4. \A d \in Caller : ~ Flying(d)' /\ pc'[d] # "joined"
  BY <1>2, <1>3 DEF Settle, Flying, TypeOK
<1>5. TypeOK'
  BY <1>4 DEF Settle, TypeOK, Place
<1> QED
  BY <1>4, <1>5 DEF InTable, JoinedFlightIsLive

\* Every step keeps the table exact.
LEMMA FlightStep == FlightInv /\ [Next]_vars => FlightInv'
<1> SUFFICES ASSUME FlightInv, [Next]_vars PROVE FlightInv'
  OBVIOUS
<1>1. CASE Expires \/ UNCHANGED vars
  BY <1>1 DEF Expires, vars, FlightInv, TypeOK, Flying, InTable, JoinedFlightIsLive
<1>2. ASSUME NEW c \in Caller, Call(c) \/ Step(c) PROVE FlightInv'
  <2>1. CASE \/ Call(c) \/ BypassEnds(c) \/ Deleted(c) \/ DeleteFails(c)
             \/ FallbackEnds(c) \/ ReadHits(c) \/ ReadMisses(c) \/ ReadFails(c)
    <3>1. Aside(c)
      BY <2>1 DEF Call, BypassEnds, Deleted, DeleteFails, FallbackEnds, ReadHits,
                  ReadMisses, ReadFails, Goes, Aside, Flying, FlightInv, TypeOK, Place
    <3> QED
      BY <3>1, AsideKeeps
  <2>2. CASE MissArrives(c)
    BY <2>2, MissKeeps
  <2>3. CASE MethodReturns(c) \/ Stored(c)
    BY <2>3, ProgressKeeps
  <2>4. CASE MethodThrows(c) \/ StoreFails(c) \/ StoreAnswers(c)
    BY <2>4, SettleKeeps DEF MethodThrows, StoreFails, StoreAnswers, Flying
  <2> QED
    BY <1>2, <2>1, <2>2, <2>3, <2>4 DEF Step
<1> QED
  BY <1>1, <1>2 DEF Next

\* The table is exact in every reachable state.
LEMMA FlightInvariant == Spec => []FlightInv
BY InitFlightInv, FlightStep, PTL DEF Spec

(* The entry of the in-flight table is always a promise that is not settled.   *)
THEOREM TableHoldsLivePromise == Spec => []TypeOK
BY FlightInvariant, PTL DEF FlightInv

(* However many calls miss at once, wrap has one request for the key in flight. *)
THEOREM SingleFlightHolds == Spec => []OneFlight
<1>1. FlightInv => OneFlight
  BY DEF FlightInv, InTable, OneFlight
<1> QED
  BY <1>1, FlightInvariant, PTL

(* Nobody waits for a request that is over: the promise a call joined is the    *)
(* one in the table and is still to settle.                                     *)
THEOREM JoinedIsLive == Spec => []JoinedFlightIsLive
BY FlightInvariant, PTL DEF FlightInv

=============================================================================
