----------------------------- MODULE QueueState -----------------------------
(***************************************************************************)
(* The song queue of one guild, domain/entities/queue-state.ts.  A queue   *)
(* is a sequence of queue entries; its head is the current song.  Entries  *)
(* are numbered in the order in which users request them, so that two      *)
(* requests of one video are two entries, as they are two Song objects.    *)
(***************************************************************************)
EXTENDS Naturals, Sequences

CONSTANT MaxSongs    \* bound: how many entries users ever request

ASSUME QueueAssumption == MaxSongs \in Nat

Song   == 1..MaxSongs
NoSong == 0

\* addSongs pushes entries behind the queue: the n requested after number k.
AddSongs(q, k, n) == q \o [i \in 1..n |-> k + i]

CurrentSong(q) == Head(q)

\* Array.prototype.shift: an empty queue stays empty.
RemoveCurrent(q) == IF q = <<>> THEN q ELSE Tail(q)

\* clear() followed by addSong(current).
KeepCurrent(q) == IF q = <<>> THEN q ELSE <<Head(q)>>

\* Where an entry may move when the queue is shuffled: Fisher-Yates on all
\* but the first entry yields any permutation of those.
Shufflings(n) == {f \in [1..n -> 1..n] :
                    /\ n > 0 => f[1] = 1
                    /\ \A i, j \in 1..n : f[i] = f[j] => i = j}

Shuffled(q) == {[i \in 1..Len(q) |-> q[f[i]]] : f \in Shufflings(Len(q))}

=============================================================================
