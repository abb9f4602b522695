------------------------- MODULE GrpcThrottleProofs -------------------------
(***************************************************************************)
(* The throttle for any keys, limits, windows, clean-up interval and       *)
(* clock.  The invariant that carries everything is in TypeOK: an entry in *)
(* the store expires later than the last clean-up.                         *)
(***************************************************************************)
EXTENDS GrpcThrottle, FiniteSetTheorems, TLAPS

\* The clean-up drops expired entries and keeps the others as they are.
LEMMA CleanedType ==
  ASSUME TypeOK, NEW k \in Key
  PROVE  /\ Cleaned \in [Key -> Entry \cup {Missing}]
         /\ Cleaned[k] = store[k] \/ (Cleaned[k] = Missing /\ Expired(store[k]))
         /\ Cleaned[k] # Missing => /\ Cleaned[k].resetAt > lastCleanup
                                    /\ CleanupDue => now < Cleaned[k].resetAt
BY DEF TypeOK, Cleaned, CleanupDue, Expired, Entry, Missing

\* A clean-up looks at the clock of the request it belongs to.
LEMMA CleanupType ==
  ASSUME TypeOK, Cleanup
  PROVE  /\ lastCleanup' \in 0..now
         /\ lastCleanup' = (IF CleanupDue THEN now ELSE lastCleanup)
BY DEF TypeOK, Cleanup

\* The entry a request writes is one that is not over.
LEMMA AdmitType ==
  ASSUME TypeOK, NEW k \in Key, NEW e \in Entry, e.resetAt > now,
         Admit(k, e), Cleanup, UNCHANGED now
  PROVE  TypeOK'
<1>1. store' = [Cleaned EXCEPT ![k] = e] /\ Cleaned \in [Key -> Entry \cup {Missing}]
  BY CleanedType DEF Admit
<1>2. store' \in [Key -> Entry \cup {Missing}]
  BY <1>1
<1>3. lastCleanup' \in 0..now /\ now \in Nat
  BY CleanupType DEF TypeOK
<1>4. [at |-> now, nth |-> e.count] \in [at : 0..now, nth : Nat \ {0}]
  BY <1>3 DEF Entry
<1>5. admitted' \in [Key -> SUBSET [at : 0..now, nth : Nat \ {0}]]
  BY <1>4 DEF Admit, TypeOK
<1>6. ASSUME NEW j \in Key, store'[j] # Missing PROVE store'[j].resetAt > lastCleanup'
  <2>1. CASE j = k
    <3>1. store'[j] = e
      BY <1>1, <2>1
    <3> QED
      BY <1>3, <3>1 DEF Entry
  <2>2. CASE j # k
    <3>1. store'[j] = Cleaned[j]
      BY <1>1, <2>2
    <3>2. Cleaned[j] \in Entry
      BY <1>1, <1>6, <3>1
    <3>3. Cleaned[j].resetAt > lastCleanup /\ (CleanupDue => now < Cleaned[j].resetAt)
      BY <1>6, <3>1, CleanedType
    <3> QED
      BY <1>3, <3>1, <3>2, <3>3, CleanupType DEF Entry
  <2> QED
    BY <2>1, <2>2
<1> QED
  BY <1>2, <1>3, <1>5, <1>6 DEF TypeOK

\* A request that opens a window.
LEMMA OpensType ==
  ASSUME TypeOK, NEW k \in Key, Opens(k), Cleanup, UNCHANGED now
  PROVE  TypeOK'
<1> DEFINE e == [count |-> 1, resetAt |-> now + Ttl[k]]
<1>1. now \in Nat /\ Ttl[k] \in Nat \ {0}
  BY ThrottleAssumption DEF TypeOK
<1>2. e \in Entry /\ e.resetAt > now
  BY <1>1 DEF Entry
<1>3. Admit(k, e)
  BY DEF Opens
<1> HIDE DEF e
<1> QED
  BY <1>2, <1>3, AdmitType

\* A request that is counted in the open window.
LEMMA CountsType ==
  ASSUME TypeOK, NEW k \in Key, Counts(k), Cleanup, UNCHANGED now
  PROVE  TypeOK'
<1> DEFINE e == [Cleaned[k] EXCEPT !.count = @ + 1]
<1>1. Cleaned[k] \in Entry /\ Cleaned[k].resetAt > now
  <2>1. Cleaned[k] # Missing /\ ~ (now >= Cleaned[k].resetAt)
    BY DEF Counts, Expired
  <2>2. Cleaned[k] \in Entry
    BY <2>1, CleanedType
  <2> QED
    BY <2>1, <2>2 DEF Entry, TypeOK
<1>2. e \in Entry /\ e.resetAt > now
  BY <1>1 DEF Entry
<1>3. Admit(k, e)
  BY DEF Counts
<1> HIDE DEF e
<1> QED
  BY <1>2, <1>3, AdmitType

\* A request that is refused.
LEMMA RefusesType ==
  ASSUME TypeOK, NEW k \in Key, Refuses(k), Cleanup, UNCHANGED now
  PROVE  TypeOK'
<1>1. store' = Cleaned /\ Cleaned \in [Key -> Entry \cup {Missing}]
  BY CleanedType DEF Refuses
<1>2. lastCleanup' \in 0..now /\ now \in Nat
  BY CleanupType DEF TypeOK
<1>3. admitted' \in [Key -> SUBSET [at : 0..now, nth : Nat \ {0}]]
  BY DEF Refuses, TypeOK
<1>4. ASSUME NEW j \in Key, store'[j] # Missing PROVE store'[j].resetAt > lastCleanup'
  <2>1. Cleaned[j] \in Entry
    BY <1>1, <1>4
  <2>2. Cleaned[j].resetAt > lastCleanup /\ (CleanupDue => now < Cleaned[j].resetAt)
    BY <1>1, <1>4, CleanedType
  <2> QED
    BY <1>1, <1>2, <2>1, <2>2, CleanupType DEF Entry
<1> QED
  BY <1>1, <1>2, <1>3, <1>4 DEF TypeOK

\* The clock goes on.
LEMMA TickType == TypeOK /\ Tick => TypeOK'
<1> SUFFICES ASSUME TypeOK, Tick PROVE TypeOK'
  OBVIOUS
<1>1. now \in Nat /\ now' = now + 1 /\ UNCHANGED <<store, lastCleanup>>
  BY DEF TypeOK, Tick
<1>2. 0..now \subseteq 0..now'
  BY <1>1
<1>3. admitted' \in [Key -> SUBSET [at : 0..now', nth : Nat \ {0}]]
  <2>1. ASSUME NEW k \in Key
        PROVE  admitted[k] \subseteq [at : 0..now', nth : Nat \ {0}]
    BY <1>2 DEF TypeOK
  <2> QED
    BY <2>1 DEF Tick
<1> QED
  BY <1>1, <1>2, <1>3 DEF TypeOK

(* The store is well-typed and holds nothing that was over at the last         *)
(* clean-up.                                                                   *)
THEOREM ThrottleType == Spec => []TypeOK
<1>1. Init => TypeOK
  BY DEF Init, TypeOK, Missing
<1>2. TypeOK /\ [Next]_vars => TypeOK'
  <2>1. TypeOK /\ UNCHANGED vars => TypeOK'
    BY DEF vars, TypeOK
  <2> QED
    BY <2>1, TickType, OpensType, CountsType, RefusesType DEF Next, Request
<1> QED
  BY <1>1, <1>2, PTL DEF Spec

-----------------------------------------------------------------------------
(* The clean-up forgets *)

(* After a request, and until the next clean-up is due, no entry in the map    *)
(* expired a clean-up interval ago.                                            *)
THEOREM ThrottleForgets == Spec => []StoreForgets
<1>1. TypeOK => StoreForgets
  <2> SUFFICES ASSUME TypeOK, ~ CleanupDue, NEW k \in Key, store[k] # Missing
               PROVE  now < store[k].resetAt + Interval
    BY DEF StoreForgets
  <2>1. now \in Nat /\ Interval \in Nat \ {0} /\ lastCleanup \in 0..now
    BY ThrottleAssumption DEF TypeOK
  <2>2. store[k] \in Entry /\ store[k].resetAt > lastCleanup
    BY DEF TypeOK
  <2> QED
    BY <2>1, <2>2 DEF Entry, CleanupDue
<1> QED
  BY <1>1, ThrottleType, PTL

-----------------------------------------------------------------------------
(* The guard is a fixed-window limiter *)

\* The clean-up changes no window that is open.
LEMMA CleanedOpen ==
  ASSUME TypeOK, NEW k \in Key
  PROVE  /\ Expired(Cleaned[k]) <=> Expired(store[k])
         /\ ~ Expired(store[k]) => Cleaned[k] = store[k]
BY CleanedType DEF Expired, Cleaned, TypeOK

\* A request that writes e for k changes the window of k only.
LEMMA AdmitWindow ==
  ASSUME TypeOK, NEW k \in Key, NEW e \in Entry, e.resetAt > now,
         Admit(k, e), UNCHANGED now
  PROVE  OpenWindow' = [OpenWindow EXCEPT ![k] = e]
<1>1. store' = [Cleaned EXCEPT ![k] = e] /\ Cleaned \in [Key -> Entry \cup {Missing}]
  BY CleanedType DEF Admit
<1>2. ~ Expired(e)'
  BY DEF Expired, Entry, Missing, TypeOK
<1>3. ASSUME NEW j \in Key, j # k
      PROVE  OpenWindow'[j] = OpenWindow[j]
  <2>1. store'[j] = Cleaned[j]
    BY <1>1, <1>3
  <2>2. Expired(store[j])' <=> Expired(store[j])
    BY <2>1, CleanedOpen DEF Expired
  <2> QED
    BY <2>1, <2>2, CleanedOpen DEF OpenWindow
<1>4. OpenWindow'[k] = e
  BY <1>1, <1>2 DEF OpenWindow, Expired
<1>5. /\ OpenWindow' = [j \in Key |-> OpenWindow'[j]]
      /\ OpenWindow = [j \in Key |-> OpenWindow[j]]
  BY DEF OpenWindow
<1> HIDE DEF OpenWindow
<1> QED
  BY <1>3, <1>4, <1>5

\* Each step of the guard is one of the limiter, or none.
LEMMA ThrottleStep == TypeOK /\ TypeOK' /\ [Next]_vars => [Limiter!Next]_<<now, OpenWindow>>
<1> SUFFICES ASSUME TypeOK, TypeOK', [Next]_vars
             PROVE  [Limiter!Next]_<<now, OpenWindow>>
  OBVIOUS
<1>1. CASE Tick
  <2>1. now \in Nat /\ now' = now + 1 /\ store' = store
    BY <1>1 DEF Tick, TypeOK
  <2>2. ASSUME NEW k \in Key
        PROVE  OpenWindow'[k] = IF now' >= OpenWindow[k].resetAt THEN Limiter!Closed
                                                                 ELSE OpenWindow[k]
    <3>1. store[k] = Missing \/ store[k] \in Entry
      BY DEF TypeOK
    <3> QED
      BY <2>1, <3>1 DEF OpenWindow, Expired, Missing, Entry, Limiter!Closed
  <2>3. OpenWindow' = [k \in Key |-> OpenWindow'[k]]
    BY DEF OpenWindow
  <2>4. Limiter!Passes
    BY <2>1, <2>2, <2>3, Zenon DEF Limiter!Passes
  <2> QED
    BY <2>4 DEF Limiter!Next
<1>2. ASSUME NEW k \in Key, Request(k) PROVE [Limiter!Next]_<<now, OpenWindow>>
  <2>0. now \in Nat /\ UNCHANGED now
    BY <1>2 DEF TypeOK, Request
  <2>1. CASE Opens(k)
    <3> DEFINE e == [count |-> 1, resetAt |-> now + Ttl[k]]
    <3>1. e \in Entry /\ e.resetAt > now
      BY <2>0, ThrottleAssumption DEF Entry
    <3>2. OpenWindow' = [OpenWindow EXCEPT ![k] = e]
      <4>1. Admit(k, e)
        BY <2>1 DEF Opens
      <4> HIDE DEF e
      <4> QED
        BY <2>0, <3>1, <4>1, AdmitWindow
    <3>3. OpenWindow[k] = Limiter!Closed
      BY <2>1, CleanedOpen DEF Opens, OpenWindow, Missing, Limiter!Closed
    <3>4. Limiter!Opens(k)
      BY <2>0, <3>2, <3>3 DEF Limiter!Opens
    <3> QED
      BY <3>4 DEF Limiter!Next
  <2>2. CASE Counts(k)
    <3> DEFINE e == [Cleaned[k] EXCEPT !.count = @ + 1]
    <3>1. ~ Expired(store[k]) /\ Cleaned[k] = store[k] /\ store[k].count < Limit[k]
      BY <2>2, CleanedOpen DEF Counts
    <3>2. OpenWindow[k] = Cleaned[k] /\ Cleaned[k] \in Entry /\ Cleaned[k].resetAt > now
      BY <2>0, <3>1 DEF OpenWindow, Expired, TypeOK, Entry
    <3>3. e \in Entry /\ e.resetAt > now
      BY <3>2 DEF Entry
    <3>4. OpenWindow' = [OpenWindow EXCEPT ![k] = e]
      <4>1. Admit(k, e)
        BY <2>2 DEF Counts
      <4> HIDE DEF e
      <4> QED
        BY <2>0, <3>3, <4>1, AdmitWindow
    <3>5. OpenWindow[k] # Limiter!Closed
      BY <3>2 DEF Entry, Limiter!Closed
    <3>6. OpenWindow' = [OpenWindow EXCEPT ![k].count = @ + 1]
      BY <3>2, <3>4
    <3>7. Limiter!Admits(k)
      BY <2>0, <3>1, <3>2, <3>5, <3>6 DEF Limiter!Admits
    <3> QED
      BY <3>7 DEF Limiter!Next
  <2>3. CASE Refuses(k)
    <3>1. store' = Cleaned
      BY <2>3 DEF Refuses
    <3>2. ASSUME NEW j \in Key PROVE OpenWindow'[j] = OpenWindow[j]
      <4>1. Expired(store[j])' <=> Expired(store[j])
        BY <2>0, <3>1, CleanedOpen DEF Expired
      <4> QED
        BY <3>1, <4>1, CleanedOpen DEF OpenWindow
    <3>3. /\ OpenWindow' = [j \in Key |-> OpenWindow'[j]]
          /\ OpenWindow = [j \in Key |-> OpenWindow[j]]
      BY DEF OpenWindow
    <3> HIDE DEF OpenWindow
    <3>4. OpenWindow' = OpenWindow
      BY <3>2, <3>3
    <3> QED
      BY <2>0, <3>4
  <2> QED
    BY <1>2, <2>1, <2>2, <2>3 DEF Request
<1>3. CASE UNCHANGED vars
  BY <1>3 DEF vars, OpenWindow, Expired
<1> QED
  BY <1>1, <1>2, <1>3 DEF Next

(* Whatever its clean-up does and when, the guard admits and refuses as a      *)
(* limiter with one fixed window per key and no store to clean.                *)
THEOREM ThrottleRefines == Spec => IsFixedWindow
<1>1. Init => Limiter!Init
  <2> SUFFICES ASSUME Init PROVE Limiter!Init
    OBVIOUS
  <2>1. OpenWindow = [k \in Key |-> Limiter!Closed]
    BY DEF Init, OpenWindow, Expired, Missing, Limiter!Closed
  <2> QED
    BY <2>1 DEF Init, Limiter!Init
<1>2. TypeOK /\ TypeOK' /\ [Next]_vars => [Limiter!Next]_<<now, OpenWindow>>
  BY ThrottleStep
<1> QED
  BY <1>1, <1>2, ThrottleType, PTL DEF Spec, IsFixedWindow, Limiter!Spec

-----------------------------------------------------------------------------
(* Bursts and refusals *)

(* The guard forgets when a window began once its entry is gone, the admitted  *)
(* requests do not.  So the invariant speaks of a time t: the last window of k *)
(* began then, and of the one before it the first request is forgotten.        *)
Since(k, t)  == {a \in admitted[k] : a.at >= t}
Before(k, t) == {a \in admitted[k] : a.at < t}

\* The requests of one window have numbers of their own.
Numbered(S) == \A a, b \in S : a.nth = b.nth => a = b

LastWindow(k, t) ==
    /\ \A a \in admitted[k] : a.at + Ttl[k] > now /\ a.at < t + Ttl[k]
    /\ Numbered(Since(k, t)) /\ Numbered(Before(k, t))
    /\ \A a \in Since(k, t) : a.nth \in 1..Limit[k] /\ (a.nth = 1 => a.at = t)
    /\ \A a \in Before(k, t) : a.nth \in 2..Limit[k]
    /\ store[k] = Missing => admitted[k] = {} \/ now >= t + Ttl[k]
    /\ store[k] # Missing => /\ store[k].resetAt = t + Ttl[k]
                             /\ store[k].count \in 1..Limit[k]
                             /\ \A a \in Since(k, t) : a.nth <= store[k].count
    /\ ~ Expired(store[k]) =>
          \A n \in 1..store[k].count : \E a \in Since(k, t) : a.nth = n

WindowInv == \A k \in Key : \E t \in 0..now : LastWindow(k, t)

LEMMA WindowInit == Init => WindowInv
BY DEF Init, WindowInv, LastWindow, Since, Before, Numbered, Expired, Missing

\* Time passes: requests are forgotten, those of an open window are not.
LEMMA TickWindow ==
  ASSUME TypeOK, NEW k \in Key, NEW t \in 0..now, LastWindow(k, t), Tick
  PROVE  t \in 0..now' /\ LastWindow(k, t)'
<1>1. /\ now \in Nat /\ now' = now + 1 /\ Ttl[k] \in Nat \ {0}
      /\ store'[k] = store[k] /\ (store[k] = Missing \/ store[k] \in Entry)
      /\ admitted'[k] = {a \in admitted[k] : a.at + Ttl[k] > now'}
      /\ \A a \in admitted[k] : a.at \in Nat /\ a.nth \in Nat
  BY ThrottleAssumption DEF Tick, TypeOK
<1>2. t \in 0..now'
  BY <1>1
<1>3. /\ \A a \in Since(k, t)' : a \in Since(k, t)
      /\ \A a \in Before(k, t)' : a \in Before(k, t)
      /\ \A a \in admitted'[k] : a \in admitted[k]
  BY <1>1 DEF Since, Before
<1>4. ASSUME ~ Expired(store[k])'
      PROVE  ~ Expired(store[k]) /\ \A a \in Since(k, t) : a \in Since(k, t)'
  <2>1. store[k] # Missing /\ store[k].resetAt > now' /\ store[k].resetAt = t + Ttl[k]
    BY <1>1, <1>4 DEF Expired, LastWindow, Entry
  <2> QED
    BY <1>1, <2>1 DEF Expired, Since, Entry
<1>5. /\ \A a \in admitted'[k] : a.at + Ttl[k] > now' /\ a.at < t + Ttl[k]
      /\ Numbered(Since(k, t))' /\ Numbered(Before(k, t))'
      /\ \A a \in Since(k, t)' : a.nth \in 1..Limit[k] /\ (a.nth = 1 => a.at = t)
      /\ \A a \in Before(k, t)' : a.nth \in 2..Limit[k]
  BY <1>1, <1>3 DEF LastWindow, Numbered
<1>6. store'[k] = Missing => admitted'[k] = {} \/ now' >= t + Ttl[k]
  BY <1>1, <1>3 DEF LastWindow
<1>7. store'[k] # Missing => /\ store'[k].resetAt = t + Ttl[k]
                             /\ store'[k].count \in 1..Limit[k]
                             /\ \A a \in Since(k, t)' : a.nth <= store'[k].count
  BY <1>1, <1>3 DEF LastWindow
<1>8. ~ Expired(store[k])' =>
          \A n \in 1..store'[k].count : \E a \in Since(k, t)' : a.nth = n
  BY <1>1, <1>4 DEF LastWindow
<1> QED
  BY <1>2, <1>5, <1>6, <1>7, <1>8 DEF LastWindow

\* The clean-up and requests of others: an entry that is dropped was over.
LEMMA CleanedWindow ==
  ASSUME TypeOK, NEW k \in Key, NEW t \in 0..now, LastWindow(k, t),
         now' = now, store'[k] = Cleaned[k], admitted'[k] = admitted[k]
  PROVE  LastWindow(k, t)'
<1>1. Since(k, t)' = Since(k, t) /\ Before(k, t)' = Before(k, t)
  BY DEF Since, Before
<1>2. CASE store'[k] = store[k]
  BY <1>1, <1>2 DEF LastWindow, Numbered, Expired
<1>3. CASE store'[k] = Missing /\ Expired(store[k])
  BY <1>1, <1>3 DEF LastWindow, Numbered, Expired
<1> QED
  BY <1>2, <1>3, CleanedType

\* The window that opens is the last one, and only the requests of the one before
\* it may still be known.
LEMMA OpensWindow ==
  ASSUME TypeOK, NEW k \in Key, NEW t \in 0..now, LastWindow(k, t),
         Opens(k), now' = now
  PROVE  LastWindow(k, now)'
<1> DEFINE new == [at |-> now, nth |-> 1]
<1>1. /\ now \in Nat /\ Ttl[k] \in Nat \ {0} /\ Limit[k] \in Nat \ {0}
      /\ \A a \in admitted[k] : a.at \in Nat /\ a.nth \in Nat
      /\ store[k] = Missing \/ store[k] \in Entry
  BY ThrottleAssumption DEF TypeOK
<1>2. store'[k] = [count |-> 1, resetAt |-> now + Ttl[k]] /\ admitted'[k] = admitted[k] \cup {new}
  BY CleanedType DEF Opens, Admit, TypeOK
<1>3. admitted[k] = {} \/ now >= t + Ttl[k]
  BY <1>1, CleanedOpen DEF Opens, LastWindow, Expired, Entry
<1>4. \A a \in admitted[k] : a \in Since(k, t) /\ a.at < now /\ a.nth \in 2..Limit[k]
  BY <1>1, <1>3 DEF LastWindow, Since
<1>5. Since(k, now)' = {new} /\ Before(k, now)' = admitted[k]
  BY <1>1, <1>2, <1>4 DEF Since, Before
<1>6. Numbered(admitted[k])
  BY <1>4 DEF LastWindow, Numbered
<1>7. \A a \in admitted'[k] : a.at + Ttl[k] > now /\ a.at < now + Ttl[k]
  BY <1>1, <1>2, <1>4 DEF LastWindow
<1>8. Numbered(Since(k, now))' /\ Numbered(Before(k, now))'
  BY <1>5, <1>6 DEF Numbered
<1>9. /\ \A a \in Since(k, now)' : a.nth \in 1..Limit[k] /\ (a.nth = 1 => a.at = now)
      /\ \A a \in Before(k, now)' : a.nth \in 2..Limit[k]
  BY <1>1, <1>4, <1>5
<1>10. /\ store'[k] # Missing /\ store'[k].resetAt = now + Ttl[k]
       /\ store'[k].count \in 1..Limit[k]
       /\ \A a \in Since(k, now)' : a.nth <= store'[k].count
       /\ \A n \in 1..store'[k].count : \E a \in Since(k, now)' : a.nth = n
  BY <1>1, <1>2, <1>5 DEF Missing
<1> QED
  BY <1>7, <1>8, <1>9, <1>10 DEF LastWindow

\* The request that is counted has the next number.
LEMMA CountsWindow ==
  ASSUME TypeOK, NEW k \in Key, NEW t \in 0..now, LastWindow(k, t),
         Counts(k), now' = now
  PROVE  LastWindow(k, t)'
<1> DEFINE e == store[k]
           new == [at |-> now, nth |-> e.count + 1]
<1>1. ~ Expired(e) /\ Cleaned[k] = e /\ e.count < Limit[k]
  BY CleanedOpen DEF Counts
<1>2. /\ now \in Nat /\ Ttl[k] \in Nat \ {0} /\ Limit[k] \in Nat \ {0}
      /\ \A a \in admitted[k] : a.at \in Nat /\ a.nth \in Nat
      /\ e \in Entry /\ e # Missing /\ now < e.resetAt
  BY <1>1, ThrottleAssumption DEF TypeOK, Expired, Entry
<1>3. /\ store'[k] = [e EXCEPT !.count = @ + 1]
      /\ admitted'[k] = admitted[k] \cup {new}
  <2>1. Admit(k, [e EXCEPT !.count = @ + 1])
    BY <1>1 DEF Counts
  <2> QED
    BY <1>2, <2>1, CleanedType DEF Admit, TypeOK, Entry
<1>4. /\ e.resetAt = t + Ttl[k] /\ e.count \in 1..Limit[k]
      /\ \A a \in Since(k, t) : a.nth <= e.count
      /\ \A n \in 1..e.count : \E a \in Since(k, t) : a.nth = n
  BY <1>1, <1>2 DEF LastWindow
<1>5. Since(k, t)' = Since(k, t) \cup {new} /\ Before(k, t)' = Before(k, t)
  BY <1>2, <1>3 DEF Since, Before
<1>6. store'[k].count = e.count + 1 /\ store'[k].resetAt = e.resetAt /\ store'[k] # Missing
  BY <1>2, <1>3 DEF Entry, Missing
<1> HIDE DEF e
<1>7. \A a \in admitted'[k] : a.at + Ttl[k] > now /\ a.at < t + Ttl[k]
  BY <1>2, <1>3, <1>4 DEF LastWindow
<1>8. Numbered(Since(k, t))' /\ Numbered(Before(k, t))'
  <2>1. \A a \in Since(k, t) : a.nth # e.count + 1
    BY <1>2, <1>4 DEF Since
  <2> QED
    BY <1>5, <2>1 DEF Numbered, LastWindow
<1>9. /\ \A a \in Since(k, t)' : a.nth \in 1..Limit[k] /\ (a.nth = 1 => a.at = t)
      /\ \A a \in Before(k, t)' : a.nth \in 2..Limit[k]
  BY <1>1, <1>2, <1>4, <1>5 DEF LastWindow
<1>10. /\ store'[k].resetAt = t + Ttl[k]
       /\ store'[k].count \in 1..Limit[k]
       /\ \A a \in Since(k, t)' : a.nth <= store'[k].count
  BY <1>1, <1>2, <1>4, <1>5, <1>6 DEF Since
<1>11. ASSUME NEW n \in 1..store'[k].count
       PROVE  \E a \in Since(k, t)' : a.nth = n
  <2>1. CASE n = e.count + 1
    <3>1. new \in Since(k, t)' /\ new.nth = e.count + 1
      BY <1>5
    <3> QED
      BY <2>1, <3>1
  <2>2. CASE n \in 1..e.count
    BY <1>4, <1>5, <2>2
  <2> QED
    BY <1>4, <1>6, <2>1, <2>2
<1> QED
  BY <1>6, <1>7, <1>8, <1>9, <1>10, <1>11 DEF LastWindow

LEMMA WindowStep == TypeOK /\ WindowInv /\ [Next]_vars => WindowInv'
<1> SUFFICES ASSUME TypeOK, WindowInv, [Next]_vars, NEW k \in Key
             PROVE  (\E t \in 0..now : LastWindow(k, t))'
  BY DEF WindowInv
<1>1. PICK t \in 0..now : LastWindow(k, t)
  BY DEF WindowInv
<1>2. CASE UNCHANGED vars
  <2>1. LastWindow(k, t)' /\ t \in 0..now'
    BY <1>1, <1>2 DEF vars, LastWindow, Since, Before, Numbered, Expired
  <2> QED
    BY <2>1
<1>3. CASE Tick
  BY <1>1, <1>3, TickWindow
<1>4. ASSUME NEW j \in Key, Request(j) PROVE (\E s \in 0..now : LastWindow(k, s))'
  <2>1. now' = now /\ now \in Nat
    BY <1>4 DEF Request, TypeOK
  <2>2. CASE j # k \/ Refuses(j)
    <3>1. store'[k] = Cleaned[k] /\ admitted'[k] = admitted[k]
      BY <1>4, <2>2, CleanedType DEF Request, Opens, Counts, Refuses, Admit, TypeOK
    <3> QED
      BY <1>1, <2>1, <3>1, CleanedWindow
  <2>3. CASE j = k /\ Opens(k)
    BY <1>1, <2>1, <2>3, OpensWindow
  <2>4. CASE j = k /\ Counts(k)
    BY <1>1, <2>1, <2>4, CountsWindow
  <2> QED
    BY <1>4, <2>2, <2>3, <2>4 DEF Request
<1> QED
  BY <1>2, <1>3, <1>4 DEF Next

LEMMA WindowInvariant == Spec => []WindowInv
BY WindowInit, WindowStep, ThrottleType, PTL DEF Spec

\* Requests with numbers of their own are no more than the numbers.
LEMMA NumberedBound ==
  ASSUME NEW S, NEW m \in Nat, NEW n \in Nat, Numbered(S), \A a \in S : a.nth \in m..n
  PROVE  IsFiniteSet(S) /\ Cardinality(S) <= (IF m > n THEN 0 ELSE n - m + 1)
<1> DEFINE f == [a \in S |-> a.nth]
<1>1. f \in Injection(S, m..n)
  BY DEF Numbered, Injection, IsInjective
<1>2. IsFiniteSet(m..n) /\ Cardinality(m..n) = IF m > n THEN 0 ELSE n - m + 1
  BY FS_Interval
<1> QED
  BY <1>1, <1>2, FS_Injection

(* No interval of a window's length sees two full windows: of the window       *)
(* before the last one the first request is forgotten.                         *)
THEOREM ThrottleBurst == Spec => []BurstBound
<1>1. TypeOK /\ WindowInv => BurstBound
  <2> SUFFICES ASSUME TypeOK, WindowInv, NEW k \in Key
               PROVE  Cardinality(admitted[k]) < 2 * Limit[k]
    BY DEF BurstBound
  <2>1. PICK t \in 0..now : LastWindow(k, t)
    BY DEF WindowInv
  <2>2. Limit[k] \in Nat \ {0} /\ now \in Nat /\ \A a \in admitted[k] : a.at \in Nat
    BY ThrottleAssumption DEF TypeOK
  <2>3. admitted[k] = Since(k, t) \cup Before(k, t) /\ Since(k, t) \cap Before(k, t) = {}
    BY <2>2 DEF Since, Before
  <2>4. IsFiniteSet(Since(k, t)) /\ Cardinality(Since(k, t)) <= Limit[k]
    <3>1. Numbered(Since(k, t)) /\ \A a \in Since(k, t) : a.nth \in 1..Limit[k]
      BY <2>1 DEF LastWindow
    <3>2. IsFiniteSet(Since(k, t)) /\ Cardinality(Since(k, t)) <= (IF 1 > Limit[k] THEN 0 ELSE Limit[k] - 1 + 1)
      BY <2>2, <3>1, NumberedBound
    <3> QED
      BY <2>2, <3>2
  <2>5. IsFiniteSet(Before(k, t)) /\ Cardinality(Before(k, t)) <= Limit[k] - 1
    <3>1. Numbered(Before(k, t)) /\ \A a \in Before(k, t) : a.nth \in 2..Limit[k]
      BY <2>1 DEF LastWindow
    <3>2. IsFiniteSet(Before(k, t)) /\ Cardinality(Before(k, t)) <= (IF 2 > Limit[k] THEN 0 ELSE Limit[k] - 2 + 1)
      BY <2>2, <3>1, NumberedBound
    <3> QED
      BY <2>2, <3>2
  <2>6. Cardinality(admitted[k]) =
          Cardinality(Since(k, t)) + Cardinality(Before(k, t))
    <3>1. Cardinality(Since(k, t) \cap Before(k, t)) = 0
      BY <2>3, FS_EmptySet
    <3>2. Cardinality(Since(k, t) \cup Before(k, t)) =
            Cardinality(Since(k, t)) + Cardinality(Before(k, t)) - 0
      BY <2>4, <2>5, <3>1, FS_Union
    <3>3. Cardinality(Since(k, t)) \in Nat /\ Cardinality(Before(k, t)) \in Nat
      BY <2>4, <2>5, FS_CardinalityType
    <3> QED
      BY <2>3, <3>2, <3>3
  <2> QED
    BY <2>2, <2>4, <2>5, <2>6, FS_CardinalityType
<1> QED
  BY <1>1, WindowInvariant, ThrottleType, PTL

(* A request would be refused only behind a full window of admitted ones.      *)
THEOREM ThrottleEarns == Spec => []RefusalsAreEarned
<1>1. TypeOK /\ WindowInv => RefusalsAreEarned
  <2> SUFFICES ASSUME TypeOK, WindowInv, NEW k \in Key, Full(k)
               PROVE  Cardinality(admitted[k]) >= Limit[k]
    BY DEF RefusalsAreEarned
  <2>1. PICK t \in 0..now : LastWindow(k, t)
    BY DEF WindowInv
  <2>2. Limit[k] \in Nat \ {0} /\ now \in Nat /\ \A a \in admitted[k] : a.at \in Nat
    BY ThrottleAssumption DEF TypeOK
  <2>3. ~ Expired(store[k]) /\ store[k].count = Limit[k]
    BY <2>1, <2>2, CleanedOpen DEF Full, LastWindow, Expired
  <2>4. \A n \in 1..Limit[k] : \E a \in Since(k, t) : a.nth = n
    BY <2>1, <2>3 DEF LastWindow
  <2> DEFINE f == [n \in 1..Limit[k] |-> CHOOSE a \in Since(k, t) : a.nth = n]
  <2>5. IsFiniteSet(admitted[k])
    <3>1. admitted[k] = Since(k, t) \cup Before(k, t)
      BY <2>2 DEF Since, Before
    <3>2. IsFiniteSet(Since(k, t)) /\ IsFiniteSet(Before(k, t))
      BY <2>1, <2>2, NumberedBound DEF LastWindow
    <3> QED
      BY <3>1, <3>2, FS_Union
  <2>6. f \in Injection(1..Limit[k], admitted[k])
    <3>1. \A n \in 1..Limit[k] : f[n] \in Since(k, t) /\ f[n].nth = n
      BY <2>4
    <3>2. \A n \in 1..Limit[k] : f[n] \in admitted[k]
      BY <3>1 DEF Since
    <3>3. f = [n \in 1..Limit[k] |-> f[n]]
      OBVIOUS
    <3> HIDE DEF f
    <3> QED
      BY <3>1, <3>2, <3>3 DEF Injection, IsInjective
  <2>7. Cardinality(1..Limit[k]) = Limit[k]
    BY <2>2, FS_Interval
  <2> HIDE DEF f
  <2> QED
    BY <2>5, <2>6, <2>7, FS_Injection
<1> QED
  BY <1>1, WindowInvariant, ThrottleType, PTL

=============================================================================
