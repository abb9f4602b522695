-------------------------- MODULE LifecycleProofs --------------------------
(***************************************************************************)
(* The life of a process, for any connections, order of modules, emissions *)
(* and timeout.                                                            *)
(***************************************************************************)
EXTENDS Lifecycle, SequenceTheorems, TLAPS

-----------------------------------------------------------------------------
(* Steps *)

\* What a step does to the connections.
ConnectionStep ==
    \/ UNCHANGED connectionVars
    \/ \E c \in Connection : \/ Connect(c) \/ Connected(c) \/ AttemptFails(c) \/ ConnectThrows(c)
                             \/ Disconnect(c) \/ Disconnected(c) \/ DisconnectThrows(c)
                             \/ BackendChanges(c)
    \/ faults < MaxFaults /\ faults' = faults + 1 /\ UNCHANGED <<state, attempt, up>>
    \/ /\ state' = [c \in Connection |-> "disconnected"]
       /\ attempt' = [c \in Connection |-> 0]
       /\ UNCHANGED <<up, faults>>

LEMMA ConnectionTypeStep == ConnectionTypeOK /\ ConnectionStep => ConnectionTypeOK'
<1> SUFFICES ASSUME ConnectionTypeOK, ConnectionStep PROVE ConnectionTypeOK'
  OBVIOUS
<1>1. \A c \in Connection : Attempts(c) \in Nat \ {0}
  BY ConnectionAssumption DEF Attempts
<1> USE ConnectionAssumption DEF ConnectionTypeOK, ConnectionState, Set
<1>2. ASSUME NEW c \in Connection, Connect(c) PROVE ConnectionTypeOK'
  BY <1>1, <1>2 DEF Connect
<1>3. ASSUME NEW c \in Connection, Connected(c) \/ ConnectThrows(c) PROVE ConnectionTypeOK'
  BY <1>1, <1>3 DEF Connected, ConnectThrows
<1>4. ASSUME NEW c \in Connection, AttemptFails(c) PROVE ConnectionTypeOK'
  BY <1>1, <1>4 DEF AttemptFails, Attempting
<1>5. ASSUME NEW c \in Connection, Disconnect(c) \/ Disconnected(c) \/ DisconnectThrows(c)
      PROVE  ConnectionTypeOK'
  BY <1>5 DEF Disconnect, Disconnected, DisconnectThrows
<1>6. ASSUME NEW c \in Connection, BackendChanges(c) PROVE ConnectionTypeOK'
  BY <1>6 DEF BackendChanges
<1>7. CASE UNCHANGED connectionVars
  BY <1>7 DEF connectionVars
<1>8. CASE faults < MaxFaults /\ faults' = faults + 1 /\ UNCHANGED <<state, attempt, up>>
  BY <1>8
<1>9. CASE /\ state' = [c \in Connection |-> "disconnected"]
           /\ attempt' = [c \in Connection |-> 0]
           /\ UNCHANGED <<up, faults>>
  BY <1>1, <1>9
<1> QED
  BY <1>2, <1>3, <1>4, <1>5, <1>6, <1>7, <1>8, <1>9 DEF ConnectionStep

\* The actions of the process, the groups of Next opened.
ProcessStep ==
    \/ InitEnds \/ StartSweep \/ CheckPasses \/ CheckFails \/ GateOpens \/ GateTimesOut \/ Listen
    \/ \E c \in Connection : InitHook(c) \/ ConnectStep(c) \/ InitHookThrows(c) \/ Check(c)
    \/ DrainEnds \/ DrainTimesOut \/ Closes \/ CloseThrows \/ StartDrain
    \/ GraceBegins \/ GraceEnds \/ Dispose
    \/ \E c \in Connection : NothingToClose(c) \/ Close(c)
    \/ ListenFails \/ Signal \/ Restart
    \/ \E m \in Message : Emit(m) \/ Settle(m)
    \/ \E c \in Connection : BackendStep(c)
    \/ UNCHANGED vars

LEMMA NextProcess == [Next]_vars => ProcessStep
BY DEF Next, BootStep, ShutdownStep, ProcessStep

\* The variables of the process, but for the connections.
ProcessTypeOK ==
    /\ phase \in Bootstrapping \cup {"serving", "exited"}
    /\ inited \in 0..Len(Modules)
    /\ elapsed \in 0..Timeout
    /\ found \subseteq Connection
    /\ checking \in (Connection \ found) \cup {None}
    /\ lost \subseteq Connection
    /\ shutdown \in {"no", "closing", "grace", "disposing"}
    /\ toClose \in 0..Len(Modules)
    /\ closing \in Connection \cup {None}
    /\ drain \in {"no", "draining", "done", "timedOut"}
    /\ pending \subseteq Message
    /\ unsent \subseteq Message \ pending
    /\ late \subseteq Message \ unsent

\* A sweep is begun in time.
InTime == phase = "sweeping" => elapsed < Timeout

LEMMA ProcessConnection ==
  ProcessTypeOK /\ ProcessStep => ConnectionStep
<1> SUFFICES ASSUME ProcessTypeOK, ProcessStep PROVE ConnectionStep
  OBVIOUS
<1> USE ConnectionAssumption DEF ConnectionStep, ProcessTypeOK
<1>1. CASE InitEnds \/ StartSweep \/ CheckPasses \/ CheckFails \/ GateOpens \/ GateTimesOut \/ Listen
  BY <1>1 DEF InitEnds, StartSweep, CheckPasses, CheckFails, GateOpens, GateTimesOut, Listen
<1>2. ASSUME NEW c \in Connection, InitHook(c) \/ ConnectStep(c) \/ InitHookThrows(c) \/ Check(c)
      PROVE  ConnectionStep
  BY <1>2 DEF InitHook, ConnectStep, InitHookThrows, Check
<1>3. CASE DrainEnds \/ DrainTimesOut \/ StartDrain
  BY <1>3 DEF DrainEnds, DrainTimesOut, StartDrain
<1>4. CASE Closes \/ CloseThrows
  <2>1. closing \in Connection
    BY <1>4 DEF Closes, CloseThrows
  <2> QED
    BY <1>4, <2>1 DEF Closes, CloseThrows
<1>5. CASE GraceBegins \/ GraceEnds \/ Dispose \/ Signal
  BY <1>5 DEF GraceBegins, GraceEnds, Dispose, Signal
<1>6. ASSUME NEW c \in Connection, NothingToClose(c) \/ Close(c) PROVE ConnectionStep
  BY <1>6 DEF NothingToClose, Close
<1>7. CASE ListenFails
  BY <1>7 DEF ListenFails
<1>8. CASE Restart
  BY <1>8 DEF Restart
<1>9. ASSUME NEW m \in Message, Emit(m) \/ Settle(m) PROVE ConnectionStep
  BY <1>9 DEF Emit, Settle
<1>10. ASSUME NEW c \in Connection, BackendStep(c) PROVE ConnectionStep
  BY <1>10 DEF BackendStep
<1>11. CASE UNCHANGED vars
  BY <1>11 DEF vars, connectionVars
<1> QED
  BY <1>1, <1>2, <1>3, <1>4, <1>5, <1>6, <1>7, <1>8, <1>9, <1>10, <1>11 DEF ProcessStep

LEMMA ProcessTypeStep ==
  ProcessTypeOK /\ InTime /\ ProcessStep => (ProcessTypeOK /\ InTime)'
<1> SUFFICES ASSUME ProcessTypeOK, InTime, ProcessStep PROVE (ProcessTypeOK /\ InTime)'
  OBVIOUS
<1>0. Len(Modules) \in Nat /\ Timeout \in Nat \ {0}
  BY LifecycleAssumption, LenProperties
<1> USE <1>0
    DEF ProcessTypeOK, InTime, Bootstrapping, bootVars, sweepVars, shutdownVars, emitVars, Exit
<1>1. CASE InitEnds \/ StartSweep \/ CheckPasses \/ GateOpens \/ GateTimesOut \/ Listen
  BY <1>1 DEF InitEnds, StartSweep, CheckPasses, GateOpens, GateTimesOut, Listen
<1>2. CASE CheckFails
  BY <1>2 DEF CheckFails
<1>3. ASSUME NEW c \in Connection, InitHook(c) \/ ConnectStep(c) \/ InitHookThrows(c) \/ Check(c)
      PROVE  (ProcessTypeOK /\ InTime)'
  BY <1>3 DEF InitHook, ConnectStep, InitHookThrows, Check
<1>4. CASE DrainEnds \/ DrainTimesOut \/ Closes \/ CloseThrows
  BY <1>4 DEF DrainEnds, DrainTimesOut, Closes, CloseThrows
<1>5. CASE StartDrain
  BY <1>5, ConnectionAssumption DEF StartDrain, ModuleDestroy
<1>6. CASE GraceBegins \/ GraceEnds \/ Dispose \/ Signal \/ ListenFails
  BY <1>6 DEF GraceBegins, GraceEnds, Dispose, Signal, ListenFails
<1>7. ASSUME NEW c \in Connection, NothingToClose(c) \/ Close(c) PROVE (ProcessTypeOK /\ InTime)'
  BY <1>7 DEF NothingToClose, Close, ModuleDestroy
<1>8. CASE Restart
  BY <1>8 DEF Restart
<1>9. ASSUME NEW m \in Message, Emit(m) \/ Settle(m) PROVE (ProcessTypeOK /\ InTime)'
  BY <1>9 DEF Emit, Settle
<1>10. ASSUME NEW c \in Connection, BackendStep(c) PROVE (ProcessTypeOK /\ InTime)'
  BY <1>10 DEF BackendStep
<1>11. CASE UNCHANGED vars
  BY <1>11 DEF vars
<1> QED
  BY <1>1, <1>2, <1>3, <1>4, <1>5, <1>6, <1>7, <1>8, <1>9, <1>10, <1>11 DEF ProcessStep

(* Types: Kafka's connect leaves its attempts by one at most, and a sweep looks *)
(* at a connection it has not found, within the timeout of the gate.           *)
THEOREM LifecycleType == Spec => []TypeOK
<1>1. TypeOK <=> ConnectionTypeOK /\ ProcessTypeOK
  BY DEF TypeOK, ProcessTypeOK
<1>2. Init => ConnectionTypeOK
  <2>1. \A c \in Connection : Attempts(c) \in Nat
    BY ConnectionAssumption DEF Attempts
  <2> QED
    BY <2>1, ConnectionAssumption DEF Init, ConnectionInit, ConnectionTypeOK, ConnectionState
<1>3. Init => ProcessTypeOK /\ InTime
  <2>1. Len(Modules) \in Nat /\ Timeout \in Nat \ {0}
    BY LifecycleAssumption, LenProperties
  <2> QED
    BY <2>1 DEF Init, ProcessInit, ProcessTypeOK, InTime, Bootstrapping
<1> QED
  BY <1>1, <1>2, <1>3, ProcessTypeStep, ProcessConnection, ConnectionTypeStep, NextProcess, PTL
     DEF Spec

-----------------------------------------------------------------------------
(* The readiness gate *)

\* What a sweep has found answered, and answers unless it was lost since the
\* sweep began.
FoundAnswers == \A c \in found \ {Kafka} : up[c] \/ c \in lost

LEMMA FoundStep == TypeOK /\ FoundAnswers /\ ProcessStep => FoundAnswers'
<1> SUFFICES ASSUME TypeOK, FoundAnswers, ProcessStep PROVE FoundAnswers'
  OBVIOUS
<1> USE DEF FoundAnswers
<1>1. (found' = found \/ found' = {}) /\ up' = up /\ (lost' = lost \/ found' = {}) => FoundAnswers'
  OBVIOUS
<1>2. CASE CheckPasses
  BY <1>2 DEF CheckPasses, Healthy, connectionVars
<1>3. ASSUME NEW c \in Connection, BackendStep(c) PROVE FoundAnswers'
  BY <1>3 DEF BackendStep, BackendChanges, sweepVars, TypeOK, ConnectionTypeOK
<1>4. CASE InitEnds \/ StartSweep \/ CheckFails \/ GateOpens \/ GateTimesOut \/ Listen
  BY <1>4 DEF InitEnds, StartSweep, CheckFails, GateOpens, GateTimesOut, Listen,
              connectionVars, sweepVars
<1>5. ASSUME NEW c \in Connection, InitHook(c) \/ ConnectStep(c) \/ InitHookThrows(c) \/ Check(c)
      PROVE  FoundAnswers'
  BY <1>5 DEF InitHook, ConnectStep, InitHookThrows, Check, Connect, Connected, AttemptFails,
              ConnectThrows, connectionVars, sweepVars, bootVars
<1>6. CASE DrainEnds \/ DrainTimesOut \/ Closes \/ CloseThrows
  BY <1>6 DEF DrainEnds, DrainTimesOut, Closes, CloseThrows, Disconnect, Disconnected,
              DisconnectThrows, connectionVars, sweepVars, bootVars
<1>7. CASE StartDrain \/ GraceBegins \/ GraceEnds \/ Dispose \/ Signal \/ ListenFails \/ Restart
  BY <1>7 DEF StartDrain, ModuleDestroy, GraceBegins, GraceEnds, Dispose, Signal, ListenFails,
              Restart, connectionVars, sweepVars, bootVars
<1>8. ASSUME NEW c \in Connection, NothingToClose(c) \/ Close(c) PROVE FoundAnswers'
  BY <1>8 DEF NothingToClose, Close, ModuleDestroy, Disconnect, connectionVars, sweepVars, bootVars
<1>9. ASSUME NEW m \in Message, Emit(m) \/ Settle(m) PROVE FoundAnswers'
  BY <1>9 DEF Emit, Settle, connectionVars, sweepVars, bootVars
<1>10. CASE UNCHANGED vars
  BY <1>10 DEF vars, connectionVars, sweepVars, bootVars
<1> QED
  BY <1>2, <1>3, <1>4, <1>5, <1>6, <1>7, <1>8, <1>9, <1>10 DEF ProcessStep

\* Only GateOpens ends a sweep with the servers to start.
LEMMA OnlyTheGate ==
  ASSUME [Next]_vars, phase = "sweeping", phase' = "listening"
  PROVE  GateOpens
<1>1. ProcessStep
  BY NextProcess
<1> USE DEF Exit
<1>2. ~ (InitEnds \/ StartSweep \/ CheckPasses \/ CheckFails \/ GateTimesOut \/ Listen)
  BY DEF InitEnds, StartSweep, CheckPasses, CheckFails, GateTimesOut, Listen
<1>3. ~ \E c \in Connection : InitHook(c) \/ ConnectStep(c) \/ InitHookThrows(c) \/ Check(c)
  BY DEF InitHook, ConnectStep, InitHookThrows, Check, bootVars
<1>4. ~ (DrainEnds \/ DrainTimesOut \/ Closes \/ CloseThrows)
  BY DEF DrainEnds, DrainTimesOut, Closes, CloseThrows, bootVars
<1>5. ~ (StartDrain \/ GraceBegins \/ GraceEnds \/ Dispose \/ ListenFails \/ Signal \/ Restart)
  BY DEF StartDrain, ModuleDestroy, GraceBegins, GraceEnds, Dispose, ListenFails, Signal,
         Restart, bootVars
<1>6. ~ \E c \in Connection : NothingToClose(c) \/ Close(c)
  BY DEF NothingToClose, Close, ModuleDestroy, bootVars
<1>7. ~ \E m \in Message : Emit(m) \/ Settle(m)
  BY DEF Emit, Settle, bootVars
<1>8. ~ \E c \in Connection : BackendStep(c)
  BY DEF BackendStep
<1>9. ~ UNCHANGED vars
  BY DEF vars, bootVars
<1> QED
  BY <1>1, <1>2, <1>3, <1>4, <1>5, <1>6, <1>7, <1>8, <1>9 DEF ProcessStep

(* The gate opens on one sweep: what it found, and lost earlier, it would have *)
(* asked again.                                                                *)
THEOREM LifecycleGate == Spec => GateIsRight
<1>1. Init => FoundAnswers
  BY DEF Init, ProcessInit, FoundAnswers
<1>2. Spec => []FoundAnswers
  BY <1>1, FoundStep, LifecycleType, NextProcess, PTL DEF Spec
<1>3. FoundAnswers /\ [Next]_vars =>
        [phase = "sweeping" /\ phase' = "listening" =>
           \A c \in Connection \ {Kafka} : up[c] \/ c \in lost]_vars
  BY OnlyTheGate DEF GateOpens, FoundAnswers
<1> QED
  BY <1>2, <1>3, PTL DEF Spec, GateIsRight

-----------------------------------------------------------------------------
(* The drain *)

\* What is pending after a drain that ended was emitted after it.
DrainedAll == drain = "done" => pending \subseteq late

LEMMA DrainedStep == TypeOK /\ DrainedAll /\ ProcessStep => DrainedAll'
<1> SUFFICES ASSUME TypeOK, DrainedAll, ProcessStep PROVE DrainedAll'
  OBVIOUS
<1> USE DEF DrainedAll
<1>1. CASE DrainEnds \/ DrainTimesOut \/ StartDrain
  BY <1>1 DEF DrainEnds, DrainTimesOut, StartDrain, emitVars
<1>2. ASSUME NEW m \in Message, Emit(m) \/ Settle(m) PROVE DrainedAll'
  BY <1>2 DEF Emit, Settle, shutdownVars
<1>3. CASE Restart
  BY <1>3 DEF Restart
<1>4. CASE InitEnds \/ StartSweep \/ CheckPasses \/ CheckFails \/ GateOpens \/ GateTimesOut \/ Listen
           \/ ListenFails
  BY <1>4 DEF InitEnds, StartSweep, CheckPasses, CheckFails, GateOpens, GateTimesOut, Listen,
              ListenFails, shutdownVars, emitVars
<1>5. ASSUME NEW c \in Connection, InitHook(c) \/ ConnectStep(c) \/ InitHookThrows(c) \/ Check(c)
      PROVE  DrainedAll'
  BY <1>5 DEF InitHook, ConnectStep, InitHookThrows, Check, shutdownVars, emitVars
<1>6. CASE Closes \/ CloseThrows \/ GraceBegins \/ GraceEnds \/ Dispose \/ Signal
  BY <1>6 DEF Closes, CloseThrows, GraceBegins, GraceEnds, Dispose, Signal, shutdownVars, emitVars
<1>7. ASSUME NEW c \in Connection, NothingToClose(c) \/ Close(c) PROVE DrainedAll'
  BY <1>7 DEF NothingToClose, Close, ModuleDestroy, emitVars
<1>8. ASSUME NEW c \in Connection, BackendStep(c) PROVE DrainedAll'
  BY <1>8 DEF BackendStep, shutdownVars, emitVars
<1>9. CASE UNCHANGED vars
  BY <1>9 DEF vars, shutdownVars, emitVars
<1> QED
  BY <1>1, <1>2, <1>3, <1>4, <1>5, <1>6, <1>7, <1>8, <1>9 DEF ProcessStep

(* A drain that ended within its timeout left nothing unanswered but what was  *)
(* emitted while the client was being closed, or later.                        *)
THEOREM LifecycleDrain == Spec => []DrainKeepsItsWord
<1>1. Init => DrainedAll
  BY DEF Init, ProcessInit, DrainedAll
<1>2. DrainedAll => DrainKeepsItsWord
  BY DEF DrainedAll, DrainKeepsItsWord
<1> QED
  BY <1>1, <1>2, DrainedStep, LifecycleType, NextProcess, PTL DEF Spec
=============================================================================
