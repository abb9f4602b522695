----------------------------- MODULE Lifecycle -----------------------------
(***************************************************************************)
(* The life of a process: AbstractMain.bootstrap connects everything,      *)
(* waits for the readiness gate and listens; a signal runs the shutdown    *)
(* hooks, while bootstrap goes on if it has not ended.                     *)
(*                                                                         *)
(* The order of the hooks is NestJS's: onModuleInit and onModuleDestroy    *)
(* module by module, the second in reverse, and onModuleDestroy of every   *)
(* module before beforeApplicationShutdown, the grace period.  What        *)
(* bootstrap throws nobody catches: the process ends.  Whether it is then  *)
(* started again is its deployment's affair, which the repository leaves   *)
(* open: it may be, and nothing here assumes that it is.                   *)
(***************************************************************************)
EXTENDS ManagedConnection, Sequences

CONSTANTS Modules,   \* the connections in the order of their modules
          Message,   \* emissions of KafkaService
          Timeout,   \* intervals the readiness gate waits
          None       \* no connection

ASSUME LifecycleAssumption ==
    /\ Modules \in Seq(Connection)
    /\ \A c \in Connection : \E i \in 1..Len(Modules) : Modules[i] = c
    /\ Timeout \in Nat \ {0}
    /\ None \notin Connection

VARIABLES
    phase,     \* how far bootstrap is
    inited,    \* modules whose onModuleInit has been called
    elapsed,   \* intervals since waitForReady was called
    found,     \* connections the sweep under way found ready
    checking,  \* the connection whose isHealthy it awaits
    lost,      \* history: backends that were lost since the sweep began
    shutdown,  \* how far the shutdown is
    toClose,   \* modules whose onModuleDestroy has not been called
    closing,   \* the connection whose onModuleDestroy is running
    drain,     \* how the drain of Kafka stands
    pending,   \* emissions that are not answered: pendingMessages counts them
    unsent,    \* emissions not made yet
    late       \* history: emissions made after the drain

sweepVars    == <<elapsed, found, checking>>
bootVars     == <<phase, inited, sweepVars, lost>>
shutdownVars == <<shutdown, toClose, closing, drain>>
emitVars     == <<pending, unsent, late>>
vars         == <<connectionVars, bootVars, shutdownVars, emitVars>>

Bootstrapping == {"init", "waiting", "sweeping", "listening"}

\* A connect that makes more attempts than it has leaves its bound, and a sweep
\* checks only what it has not found.
TypeOK ==
    /\ ConnectionTypeOK
    /\ phase \in Bootstrapping \cup {"serving", "exited"}
    /\ inited \in 0..Len(Modules)
    /\ elapsed \in 0..Timeout
    /\ found \subseteq Connection
    /\ checking \in (Connection \ found) \cup {None}
    /\ lost \subseteq Connection
    /\ shutdown \in {"no", "closing", "grace", "disposing"}
    /\ toClose \in 0..Len(Modules)
    /\ closing \in Connection \cup {None}
    /\ drain \in {"no", "draining", "done", "timedOut"}
    /\ pending \subseteq Message
    /\ unsent \subseteq Message \ pending
    /\ late \subseteq Message \ unsent

ProcessInit ==
    /\ phase = "init"
    /\ inited = 0
    /\ elapsed = 0
    /\ found = {}
    /\ checking = None
    /\ lost = {}
    /\ shutdown = "no"
    /\ toClose = Len(Modules)
    /\ closing = None
    /\ drain = "no"
    /\ pending = {}
    /\ unsent = Message
    /\ late = {}

Init == ConnectionInit /\ ProcessInit

-----------------------------------------------------------------------------
(* bootstrap *)

Running == phase # "exited"

\* Mutant of Exit: what bootstrap throws is caught and logged, and nothing else.
ExitCaught == phase' = phase

\* What is thrown ends the process.
Exit == phase' = "exited"

\* app.init: the next hook is called when the last has ended.
InitHook(c) ==
    /\ phase = "init"
    /\ \A d \in Connection : attempt[d] = 0
    /\ inited < Len(Modules)
    /\ c = Modules[inited + 1]
    /\ inited' = inited + 1
    /\ Connect(c)
    /\ UNCHANGED <<phase, sweepVars, lost, shutdownVars, emitVars>>

ConnectStep(c) ==
    /\ Running
    /\ Connected(c) \/ AttemptFails(c)
    /\ UNCHANGED <<bootVars, shutdownVars, emitVars>>

InitHookThrows(c) ==
    /\ Running
    /\ ConnectThrows(c)
    /\ Exit
    /\ UNCHANGED <<inited, sweepVars, lost, shutdownVars, emitVars>>

InitEnds ==
    /\ phase = "init"
    /\ inited = Len(Modules)
    /\ \A c \in Connection : attempt[c] = 0
    /\ phase' = "waiting"
    /\ UNCHANGED <<connectionVars, inited, sweepVars, lost, shutdownVars, emitVars>>

\* Mutant of StartSweep: what an earlier sweep found is kept.
StartSweepKeeps ==
    /\ phase = "waiting"
    /\ elapsed < Timeout
    /\ phase' = "sweeping"
    /\ lost' = {}
    /\ UNCHANGED <<connectionVars, inited, sweepVars, shutdownVars, emitVars>>

\* waitForReady asks areAllRequiredReady again while there is time.
StartSweep ==
    /\ phase = "waiting"
    /\ elapsed < Timeout
    /\ phase' = "sweeping"
    /\ found' = {}
    /\ lost' = {}
    /\ UNCHANGED <<connectionVars, inited, elapsed, checking, shutdownVars, emitVars>>

\* The next registered connection is connected: is it healthy?
Check(c) ==
    /\ phase = "sweeping"
    /\ checking = None
    /\ c \notin found
    /\ state[c] = "connected"
    /\ checking' = c
    /\ UNCHANGED <<connectionVars, phase, inited, elapsed, found, lost, shutdownVars, emitVars>>

CheckPasses ==
    /\ phase = "sweeping"
    /\ checking # None
    /\ Healthy(checking)
    /\ found' = found \cup {checking}
    /\ checking' = None
    /\ UNCHANGED <<connectionVars, phase, inited, elapsed, lost, shutdownVars, emitVars>>

\* A connection is not ready: the gate sleeps for an interval.
CheckFails ==
    /\ phase = "sweeping"
    /\ IF checking = None
       THEN \E c \in Connection \ found : state[c] # "connected"
       ELSE ~ Healthy(checking)
    /\ phase' = "waiting"
    /\ elapsed' = elapsed + 1
    /\ checking' = None
    /\ UNCHANGED <<connectionVars, inited, found, lost, shutdownVars, emitVars>>

GateOpens ==
    /\ phase = "sweeping"
    /\ found = Connection
    /\ phase' = "listening"
    /\ UNCHANGED <<connectionVars, inited, sweepVars, lost, shutdownVars, emitVars>>

GateTimesOut ==
    /\ phase = "waiting"
    /\ elapsed >= Timeout
    /\ Exit
    /\ UNCHANGED <<connectionVars, inited, sweepVars, lost, shutdownVars, emitVars>>

\* startServers and onAfterListen
Listen ==
    /\ phase = "listening"
    /\ phase' = "serving"
    /\ UNCHANGED <<connectionVars, inited, sweepVars, lost, shutdownVars, emitVars>>

\* A server cannot start: its port is taken, or its broker does not answer.
ListenFails ==
    /\ phase = "listening"
    /\ faults < MaxFaults
    /\ faults' = faults + 1
    /\ Exit
    /\ UNCHANGED <<state, attempt, up, inited, sweepVars, lost, shutdownVars, emitVars>>

-----------------------------------------------------------------------------
(* Emissions, while the process serves: emit does not look at the state. *)

Emit(m) ==
    /\ phase = "serving"
    /\ m \in unsent
    /\ unsent' = unsent \ {m}
    /\ pending' = pending \cup {m}
    /\ late' = IF drain \in {"done", "timedOut"} THEN late \cup {m} ELSE late
    /\ UNCHANGED <<connectionVars, bootVars, shutdownVars>>

\* The broker answers, or the producer gives up: either is counted.
Settle(m) ==
    /\ Running
    /\ m \in pending
    /\ pending' = pending \ {m}
    /\ UNCHANGED <<connectionVars, bootVars, shutdownVars, unsent, late>>

-----------------------------------------------------------------------------
(* The shutdown *)

Signal ==
    /\ Running
    /\ shutdown = "no"
    /\ shutdown' = "closing"
    /\ UNCHANGED <<connectionVars, bootVars, toClose, closing, drain, emitVars>>

ModuleDestroy(c) ==
    /\ Running
    /\ shutdown = "closing"
    /\ closing = None
    /\ toClose > 0
    /\ c = Modules[toClose]
    /\ toClose' = toClose - 1
    /\ UNCHANGED <<bootVars, shutdown, emitVars>>

\* onModuleDestroy of a connection that is not connected does nothing.
NothingToClose(c) ==
    /\ ModuleDestroy(c)
    /\ state[c] = "disconnected"
    /\ UNCHANGED <<connectionVars, closing, drain>>

\* onModuleDestroy of the cache and the database
Close(c) ==
    /\ c # Kafka
    /\ ModuleDestroy(c)
    /\ state[c] # "disconnected"
    /\ closing' = c
    /\ Disconnect(c)
    /\ UNCHANGED drain

\* onModuleDestroy of KafkaService: it drains before it disconnects.
StartDrain ==
    /\ ModuleDestroy(Kafka)
    /\ state[Kafka] # "disconnected"
    /\ closing' = Kafka
    /\ drain' = "draining"
    /\ UNCHANGED connectionVars

\* Mutant of DrainEnds: one pause, whatever is pending then.
DrainEndsSoon ==
    /\ Running
    /\ drain = "draining"
    /\ drain' = "done"
    /\ Disconnect(Kafka)
    /\ UNCHANGED <<bootVars, shutdown, toClose, closing, emitVars>>

DrainEnds ==
    /\ Running
    /\ drain = "draining"
    /\ pending = {}
    /\ drain' = "done"
    /\ Disconnect(Kafka)
    /\ UNCHANGED <<bootVars, shutdown, toClose, closing, emitVars>>

\* Mutant of DrainTimesOut: the loop has no timeout.
DrainWaitsForAll ==
    /\ Running
    /\ drain = "draining"
    /\ pending = {}
    /\ drain' = "timedOut"
    /\ Disconnect(Kafka)
    /\ UNCHANGED <<bootVars, shutdown, toClose, closing, emitVars>>

\* After 10 s with something pending the drain is given up.
DrainTimesOut ==
    /\ Running
    /\ drain = "draining"
    /\ pending # {}
    /\ drain' = "timedOut"
    /\ Disconnect(Kafka)
    /\ UNCHANGED <<bootVars, shutdown, toClose, closing, emitVars>>

\* Waiting for the client's close, a drain being over.
Closes ==
    /\ Running
    /\ closing # None
    /\ closing = Kafka => drain \in {"done", "timedOut"}
    /\ Disconnected(closing)
    /\ closing' = None
    /\ UNCHANGED <<bootVars, shutdown, toClose, drain, emitVars>>

\* The close fails: NestJS ends the process with what a hook throws.
CloseThrows ==
    /\ Running
    /\ closing # None
    /\ closing = Kafka => drain \in {"done", "timedOut"}
    /\ DisconnectThrows(closing)
    /\ closing' = None
    /\ Exit
    /\ UNCHANGED <<inited, sweepVars, lost, shutdown, toClose, drain, emitVars>>

\* beforeApplicationShutdown, when every onModuleDestroy has ended
GraceBegins ==
    /\ Running
    /\ shutdown = "closing"
    /\ toClose = 0
    /\ closing = None
    /\ shutdown' = "grace"
    /\ UNCHANGED <<connectionVars, bootVars, toClose, closing, drain, emitVars>>

GraceEnds ==
    /\ Running
    /\ shutdown = "grace"
    /\ shutdown' = "disposing"
    /\ UNCHANGED <<connectionVars, bootVars, toClose, closing, drain, emitVars>>

\* The servers are closed and the signal is raised again.
Dispose ==
    /\ shutdown = "disposing"
    /\ Running
    /\ Exit
    /\ UNCHANGED <<connectionVars, inited, sweepVars, lost, shutdownVars, emitVars>>

-----------------------------------------------------------------------------

BackendStep(c) ==
    /\ BackendChanges(c)
    /\ lost' = IF up[c] THEN lost \cup {c} ELSE lost
    /\ UNCHANGED <<phase, inited, sweepVars, shutdownVars, emitVars>>

\* The process is started again; what its backends are, they stay.
Restart ==
    /\ phase = "exited"
    /\ state' = [c \in Connection |-> "disconnected"]
    /\ attempt' = [c \in Connection |-> 0]
    /\ phase' = "init"
    /\ inited' = 0
    /\ elapsed' = 0
    /\ found' = {}
    /\ checking' = None
    /\ lost' = {}
    /\ shutdown' = "no"
    /\ toClose' = Len(Modules)
    /\ closing' = None
    /\ drain' = "no"
    /\ pending' = {}
    /\ unsent' = Message
    /\ late' = {}
    /\ UNCHANGED <<up, faults>>

BootStep ==
    \/ InitEnds \/ StartSweep \/ CheckPasses \/ CheckFails \/ GateOpens \/ GateTimesOut \/ Listen
    \/ \E c \in Connection : InitHook(c) \/ ConnectStep(c) \/ InitHookThrows(c) \/ Check(c)

ShutdownStep ==
    \/ DrainEnds \/ DrainTimesOut \/ Closes \/ CloseThrows \/ StartDrain
    \/ GraceBegins \/ GraceEnds \/ Dispose
    \/ \E c \in Connection : NothingToClose(c) \/ Close(c)

Next ==
    \/ BootStep \/ ShutdownStep \/ ListenFails \/ Signal \/ Restart
    \/ \E m \in Message : Emit(m) \/ Settle(m)
    \/ \E c \in Connection : BackendStep(c)

\* What the process does by itself it goes on with; backends, signals, emissions and
\* whoever starts the process owe nothing.
Spec ==
    /\ Init
    /\ [][Next]_vars
    /\ WF_vars(BootStep)
    /\ WF_vars(ShutdownStep)

-----------------------------------------------------------------------------

\* The readiness gate opens on one sweep: a backend that does not answer when the
\* servers start was lost during that sweep, never before it.  Kafka is not
\* covered: its isHealthy does not ask the broker.
GateIsRight ==
    [][phase = "sweeping" /\ phase' = "listening" =>
       \A c \in Connection \ {Kafka} : up[c] \/ c \in lost]_vars

\* An emission that is not answered when the Kafka client is closed was made when
\* the drain had ended, unless the drain gave up after its timeout.
DrainKeepsItsWord ==
    closing = None /\ drain = "done" => pending \subseteq late

\* A signal ends the process, whatever bootstrap is doing and whether or not the
\* broker answers what is pending.
ShutdownEnds == shutdown # "no" ~> ~ Running

\* A process that is started again whenever it has ended, whose backends are back for
\* good and that nobody stops comes to serve and goes on serving: no retry, gate or
\* start ends it or holds it up for ever.
Recovers ==
    /\ <>[](shutdown = "no" /\ \A c \in Connection : up[c])
    /\ []<>(phase # "exited")
    => <>[](phase = "serving")

=============================================================================
