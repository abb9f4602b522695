------------------------- MODULE ManagedConnection -------------------------
(***************************************************************************)
(* The managed connections of a process: KafkaService, CacheService and    *)
(* MikroConnectionService each keep a state that connect, disconnect and   *)
(* nothing else changes.  A backend that is lost afterwards is not noticed *)
(* there: isHealthy of the cache and of the database asks the backend,     *)
(* that of Kafka only looks at the state.                                  *)
(***************************************************************************)
EXTENDS Naturals

CONSTANTS Connection,
          Kafka,        \* the one with attempts and a drain
          MaxAttempts,  \* maxRetries of KafkaService.connect
          MaxFaults     \* bound: changes of the backends, and servers that cannot start,
                        \* however often the process is started

ASSUME ConnectionAssumption ==
    /\ Kafka \in Connection
    /\ MaxAttempts \in Nat \ {0}
    /\ MaxFaults \in Nat

VARIABLES
    state,    \* _state
    attempt,  \* the attempt to connect that is next or under way, 0 if none is
    up,       \* whether the backend answers
    faults    \* how often a backend changed or a server could not start

connectionVars == <<state, attempt, up, faults>>

ConnectionState == {"disconnected", "connecting", "connected", "disconnecting", "error"}

Attempts(c) == IF c = Kafka THEN MaxAttempts ELSE 1

ConnectionTypeOK ==
    /\ state \in [Connection -> ConnectionState]
    /\ up \in [Connection -> BOOLEAN]
    /\ faults \in 0..MaxFaults
    /\ DOMAIN attempt = Connection
    /\ \A c \in Connection : attempt[c] \in 0..(Attempts(c) + 1)

ConnectionInit ==
    /\ state = [c \in Connection |-> "disconnected"]
    /\ attempt = [c \in Connection |-> 0]
    /\ up = [c \in Connection |-> TRUE]
    /\ faults = 0

Set(c, s) == state' = [state EXCEPT ![c] = s]

\* connect: a connection that is connected or connecting is left alone.
Connect(c) ==
    /\ state[c] \notin {"connected", "connecting"}
    /\ Set(c, "connecting")
    /\ attempt' = [attempt EXCEPT ![c] = 1]
    /\ UNCHANGED <<up, faults>>

\* The attempt under way.
Attempting(c) == attempt[c] \in 1..Attempts(c)

Connected(c) ==
    /\ Attempting(c)
    /\ up[c]
    /\ Set(c, "connected")
    /\ attempt' = [attempt EXCEPT ![c] = 0]
    /\ UNCHANGED <<up, faults>>

\* Mutant of AttemptFails: the attempts are not counted to an end.
AttemptFailsOnceMore(c) ==
    /\ attempt[c] # 0
    /\ ~ up[c]
    /\ attempt' = [attempt EXCEPT ![c] = @ + 1]
    /\ attempt[c] <= MaxAttempts + 1
    /\ UNCHANGED <<state, up, faults>>

\* An attempt failed: after a pause there is another, if it was not the last.
AttemptFails(c) ==
    /\ Attempting(c)
    /\ ~ up[c]
    /\ attempt' = [attempt EXCEPT ![c] = @ + 1]
    /\ UNCHANGED <<state, up, faults>>

\* The last attempt failed: connect throws.
ConnectThrows(c) ==
    /\ attempt[c] > Attempts(c)
    /\ Set(c, "error")
    /\ attempt' = [attempt EXCEPT ![c] = 0]
    /\ UNCHANGED <<up, faults>>

\* disconnect, up to the await of the close
Disconnect(c) ==
    /\ Set(c, "disconnecting")
    /\ UNCHANGED <<attempt, up, faults>>

\* The close has ended, whatever a connect under way has made of the state.
Disconnected(c) ==
    /\ Set(c, "disconnected")
    /\ UNCHANGED <<attempt, up, faults>>

DisconnectThrows(c) ==
    /\ Set(c, "error")
    /\ UNCHANGED <<attempt, up, faults>>

\* isHealthy, of a connection whose state is connected
Healthy(c) == c = Kafka \/ up[c]

\* A backend is lost or comes back.
BackendChanges(c) ==
    /\ faults < MaxFaults
    /\ faults' = faults + 1
    /\ up' = [up EXCEPT ![c] = ~ @]
    /\ UNCHANGED <<state, attempt>>

=============================================================================
