----------------------------- MODULE IdleTimer ------------------------------
(***************************************************************************)
(* The 180 s idle-disconnect timers of PlayMusicUseCase for one guild: the *)
(* entry of `idleTimers`, the Node timers that are really armed, and the   *)
(* callbacks that disconnected the bot and await their farewell notice.    *)
(* The three differ: a callback deletes the entry after its await, whoever *)
(* made that entry.                                                        *)
(***************************************************************************)
CONSTANTS Timer,     \* timer handles; bound: how many exist at once
          NoTimer

ASSUME TimerAssumption == NoTimer \notin Timer

VARIABLES
    timer,    \* idleTimers.get(guildId)
    armed,    \* timers that will still fire
    closing   \* fired timers whose callback awaits sendError

timerVars == <<timer, armed, closing>>

TimerTypeOK ==
    /\ timer \in Timer \cup {NoTimer}
    /\ armed \subseteq Timer
    /\ closing \subseteq Timer

TimerInit ==
    /\ timer = NoTimer
    /\ armed = {}
    /\ closing = {}

\* clearIdleTimer
ClearIdleTimer ==
    /\ armed' = armed \ {timer}
    /\ timer' = NoTimer
    /\ UNCHANGED closing

\* scheduleIdleDisconnect: clears the registered timer and registers a new one.
ScheduleIdleDisconnect ==
    \E n \in Timer \ ((armed \ {timer}) \cup closing) :
        /\ armed' = (armed \ {timer}) \cup {n}
        /\ timer' = n
        /\ UNCHANGED closing

\* The timer n fires and its callback finds the guild in use.
TimerPasses(n) ==
    /\ n \in armed
    /\ armed' = armed \ {n}
    /\ timer' = NoTimer
    /\ UNCHANGED closing

\* Mutant of TimerDisconnects: the entry is left to the end of the callback.
TimerDisconnectsKeepingEntry(n) ==
    /\ n \in armed
    /\ armed' = armed \ {n}
    /\ closing' = closing \cup {n}
    /\ UNCHANGED timer

\* The timer n fires and its callback stops the session, which clears whatever
\* timer is registered, and then awaits the notice.
TimerDisconnects(n) ==
    /\ n \in armed
    /\ armed' = armed \ {n, timer}
    /\ timer' = NoTimer
    /\ closing' = closing \cup {n}

\* The notice of n is sent: the callback deletes the entry, its own or not.
TimerCallbackEnds(n) ==
    /\ n \in closing
    /\ closing' = closing \ {n}
    /\ timer' = NoTimer
    /\ UNCHANGED armed

=============================================================================
