---------------------------- MODULE FixedWindow -----------------------------
(***************************************************************************)
(* What a fixed-window rate limiter promises: each key has at most one     *)
(* open window, which ends by itself Ttl[key] after the request that       *)
(* opened it, and admits Limit[key] requests.  No store, no cleanup.       *)
(***************************************************************************)
EXTENDS Naturals

CONSTANTS Key,    \* a handler and the peer that calls it
          Limit,  \* requests a window admits, per key
          Ttl     \* ticks a window lasts, per key

VARIABLES
    now,
    window    \* per key: how many requests it has admitted, when it ends

Closed == [count |-> 0, resetAt |-> 0]
Window == [count : Nat, resetAt : Nat]

TypeOK == now \in Nat /\ window \in [Key -> Window]

Init ==
    /\ now = 0
    /\ window = [k \in Key |-> Closed]

Opens(k) ==
    /\ window[k] = Closed
    /\ window' = [window EXCEPT ![k] = [count |-> 1, resetAt |-> now + Ttl[k]]]
    /\ UNCHANGED now

Admits(k) ==
    /\ window[k] # Closed
    /\ window[k].count < Limit[k]
    /\ window' = [window EXCEPT ![k].count = @ + 1]
    /\ UNCHANGED now

\* Time passes; windows that have lasted their time close.
Passes ==
    /\ now' = now + 1
    /\ window' = [k \in Key |-> IF now' >= window[k].resetAt THEN Closed ELSE window[k]]

Next == Passes \/ \E k \in Key : Opens(k) \/ Admits(k)

Spec == Init /\ [][Next]_<<now, window>>

=============================================================================
