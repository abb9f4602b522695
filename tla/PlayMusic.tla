----------------------------- MODULE PlayMusic ------------------------------
(***************************************************************************)
(* PlayMusicUseCase for one guild, composed with the queue, the voice      *)
(* connection, the idle timers and the guild's infrastructure state, and   *)
(* driven by the commands, player events, timers and voice events that     *)
(* reach it.                                                               *)
(*                                                                         *)
(* The program is single-threaded: code runs without interruption up to    *)
(* its next await, and one action below is one such segment.  Every call   *)
(* of playNext is a chain of segments, kept in chain[t]: what it awaits,   *)
(* the song it captured, and who started it, which decides what happens    *)
(* when it fails.  When one event releases several chains, all of them     *)
(* run before the next event: that is the guard Settled.                   *)
(***************************************************************************)
EXTENDS VoiceConnection, IdleTimer, GuildInfra

CONSTANTS Task,      \* slots for chains; bound: how many run at once
          MaxBatch,  \* bound: the longest playlist
          MayDrop    \* TRUE: an established voice connection may be lost

ASSUME PlayAssumption == MaxBatch \in Nat \ {0} /\ MayDrop \in BOOLEAN

VARIABLES
    queue, isPlaying,  \* the guild's QueueState
    chain,             \* the playNext chains
    farewell,          \* TRUE: handleBotAlone awaits its message
    asked              \* how many entries users have requested so far

vars == <<queue, isPlaying, chain, farewell, asked,
          voiceVars, timerVars, playerVars, infoVars>>

Await == {"stream", "failReport", "emptyReport", "join",
          "connected", "rejected", "nowPlaying"}
Free  == [at |-> "free", song |-> NoSong, by |-> "nobody"]
Chain == {Free} \cup [at : Await, song : Song, by : {"play", "skip", "player"}]

FreeTask == {t \in Task : chain[t].at = "free"}

\* No chain is ready to run: the event loop takes the next event.
Settled == \A t \in Task : chain[t].at \notin {"connected", "rejected"}

TypeOK ==
    /\ queue \in Seq(Song)
    /\ isPlaying \in BOOLEAN
    /\ chain \in [Task -> Chain]
    /\ farewell \in BOOLEAN
    /\ asked \in 0..MaxSongs
    /\ VoiceTypeOK /\ TimerTypeOK /\ InfraTypeOK

Init ==
    /\ queue = <<>> /\ isPlaying = FALSE
    /\ chain = [t \in Task |-> Free]
    /\ farewell = FALSE
    /\ asked = 0
    /\ VoiceInit /\ TimerInit /\ InfraInit

-----------------------------------------------------------------------------
(* Parts of steps *)

\* A rejection nobody handles ends the Node process.  The next one, if somebody
\* starts it, has empty maps: until then nothing happens.  Messages of the old process are no longer
\* counted.
Restart ==
    /\ queue' = <<>> /\ isPlaying' = FALSE
    /\ chain' = [t \in Task |-> Free]
    /\ farewell' = FALSE
    /\ conn' = "none" /\ wrapper' = "none" /\ pending' = "none"
    /\ heard' = "nobody"
    /\ timer' = NoTimer /\ armed' = {} /\ closing' = {}
    /\ player' = FALSE /\ audio' = NoSong /\ orphans' = 0
    /\ tracked' = FALSE /\ shown' = 0
    /\ UNCHANGED asked

\* playNext up to its first await.  Its callers have just seen that q is not
\* empty, so the branches for an empty queue are never taken.
PlayNext(t, q, by) ==
    chain' = [chain EXCEPT ![t] =
                [at |-> "stream", song |-> CurrentSong(q), by |-> by]]

StartChain(q, by) == \E t \in FreeTask : PlayNext(t, q, by)

StartTwoChains(q1, q2) ==
    \E t1, t2 \in FreeTask :
        /\ t1 # t2
        /\ chain' = [chain EXCEPT
             ![t1] = [at |-> "stream", song |-> CurrentSong(q1), by |-> "player"],
             ![t2] = [at |-> "stream", song |-> CurrentSong(q2), by |-> "player"]]

Awaiting(t, x) == [at |-> x, song |-> chain[t].song, by |-> chain[t].by]

\* Chain t goes on to await x.
Awaits(t, x) == chain' = [chain EXCEPT ![t] = Awaiting(t, x)]

\* The pending join settles: all that await it go on, in some order.
ReleaseWaiters(x) ==
    chain' = [t \in Task |-> IF chain[t].at = "join" THEN Awaiting(t, x)
                                                    ELSE chain[t]]

EndChain(t) == chain' = [chain EXCEPT ![t] = Free]

HandleQueueEmpty == DeleteCurrentInfoMessage /\ ScheduleIdleDisconnect

\* The onIdle callback: on to the next song.
OnIdle ==
    /\ queue' = RemoveCurrent(queue)
    /\ IF queue' # <<>>
       THEN /\ StartChain(queue', "player")
            /\ UNCHANGED <<isPlaying, timerVars, infoVars>>
       ELSE /\ isPlaying' = FALSE
            /\ HandleQueueEmpty
            /\ UNCHANGED chain

\* A stream error: the player emits `error` and then, still in the same turn,
\* becomes idle.  onError removes an entry and starts a chain, or handles the
\* empty queue; onIdle does so again.
OnErrorThenIdle ==
    LET afterError == RemoveCurrent(queue)
    IN  /\ queue' = RemoveCurrent(afterError)
        /\ IF queue' # <<>>
           THEN /\ StartTwoChains(afterError, queue')
                /\ UNCHANGED <<isPlaying, timerVars, infoVars>>
           ELSE /\ isPlaying' = FALSE
                /\ HandleQueueEmpty
                /\ IF afterError # <<>>
                   THEN StartChain(afterError, "player")
                   ELSE UNCHANGED chain

\* stop, but for its clearIdleTimer: the queue is reset, the connection
\* destroyed, the player dropped and the message deleted.
EndSession ==
    /\ queue' = <<>> /\ isPlaying' = FALSE
    /\ DestroyConnection
    /\ DeletePlayer
    /\ DeleteCurrentInfoMessage

Stop == EndSession /\ ClearIdleTimer

\* stop when `connections` holds a destroyed connection: destroy() throws and
\* the rest of stop is not executed.
StopThrows ==
    /\ wrapper = "dead"
    /\ queue' = <<>> /\ isPlaying' = FALSE
    /\ UNCHANGED <<voiceVars, timerVars, playerVars>>

\* Mutant of PlayRejects: play does not catch.
PlayRejectsUncaught(t) ==
    /\ chain[t].by = "play"
    /\ EndChain(t)
    /\ UNCHANGED <<queue, isPlaying, farewell, asked,
                   voiceVars, timerVars, playerVars, infoVars>>

\* playNext rejects under play, which takes isPlaying back and rethrows.
PlayRejects(t) ==
    /\ chain[t].by = "play"
    /\ EndChain(t)
    /\ isPlaying' = FALSE
    /\ UNCHANGED <<queue, farewell, asked,
                   voiceVars, timerVars, playerVars, infoVars>>

\* playNext rejects under skip: the command's error aspect logs and swallows.
SkipRejects(t) ==
    /\ chain[t].by = "skip"
    /\ EndChain(t)
    /\ UNCHANGED <<queue, isPlaying, farewell, asked,
                   voiceVars, timerVars, playerVars, infoVars>>

\* playNext rejects under a player callback, which nobody awaits.
CallbackRejects(t) == chain[t].by = "player" /\ Restart

Fail(t) == PlayRejects(t) \/ SkipRejects(t) \/ CallbackRejects(t)

\* playNext from the moment it has a connection: subscribe, play, replace the
\* now-playing message.
StartPlayback(t) ==
    /\ Subscribe
    /\ PlayOnPlayer(chain[t].song)
    /\ DeleteCurrentInfoMessage
    /\ Awaits(t, "nowPlaying")
    /\ UNCHANGED <<queue, isPlaying, farewell, asked, timerVars>>

-----------------------------------------------------------------------------
(* Commands *)

\* PlayMusicUseCase.play: n entries, and a chain if nothing is playing.
PlayUseCase(n) ==
    /\ queue' = AddSongs(queue, asked, n)
    /\ IF isPlaying
       THEN UNCHANGED <<isPlaying, chain, timerVars>>
       ELSE /\ isPlaying' = TRUE
            /\ ClearIdleTimer
            /\ StartChain(queue', "play")

\* /play with a video or a playlist, or a choice from the search menu.
Play(n) ==
    /\ Settled
    /\ asked + n <= MaxSongs
    /\ asked' = asked + n
    /\ PlayUseCase(n)
    /\ UNCHANGED <<farewell, voiceVars, playerVars, infoVars>>

\* LeaveChannelUseCase.execute.  After stop its cleanup finds nothing left of
\* what is modelled here; when stop throws, cleanup is not reached.
LeaveChannel ==
    /\ Stop \/ (StopThrows /\ UNCHANGED infoVars)
    /\ UNCHANGED <<chain, asked>>

\* /leave
Leave == Settled /\ LeaveChannel /\ UNCHANGED farewell

\* PlayMusicUseCase.skip with something to skip: without a next song it stops.
SkipUseCase ==
    \/ /\ RemoveCurrent(queue) # <<>>
       /\ queue' = RemoveCurrent(queue)
       /\ StartChain(queue', "skip")
       /\ DeleteCurrentInfoMessage
       /\ UNCHANGED <<isPlaying, voiceVars, timerVars, playerVars>>
    \/ /\ RemoveCurrent(queue) = <<>>
       /\ Stop
       /\ UNCHANGED chain
    \/ /\ RemoveCurrent(queue) = <<>>
       /\ StopThrows
       /\ DeleteCurrentInfoMessage
       /\ UNCHANGED chain

\* /skip
Skip ==
    /\ Settled
    /\ queue # <<>>
    /\ SkipUseCase
    /\ UNCHANGED <<farewell, asked>>

\* /empty keeps the current song.
ClearQueue ==
    /\ Settled
    /\ queue # <<>>
    /\ queue' = KeepCurrent(queue)
    /\ UNCHANGED <<isPlaying, chain, farewell, asked,
                   voiceVars, timerVars, playerVars, infoVars>>

\* /shuffle
Shuffle ==
    /\ Settled
    /\ queue' \in Shuffled(queue)
    /\ UNCHANGED <<isPlaying, chain, farewell, asked,
                   voiceVars, timerVars, playerVars, infoVars>>

-----------------------------------------------------------------------------
(* The segments of a chain *)

\* The audio resource is ready.  getOrCreateConnection then returns the
\* connection at once, awaits a pending or a new join, or rejects because the
\* guild or the channel is gone.
StreamReady(t) ==
    /\ Settled
    /\ chain[t].at = "stream"
    /\ \/ IsConnected /\ StartPlayback(t)
       \/ /\ ~ IsConnected
          /\ pending # "none"
          /\ Awaits(t, "join")
          /\ UNCHANGED <<queue, isPlaying, farewell, asked,
                         voiceVars, timerVars, playerVars, infoVars>>
       \/ /\ StartJoin
          /\ Awaits(t, "join")
          /\ UNCHANGED <<queue, isPlaying, farewell, asked,
                         timerVars, playerVars, infoVars>>
       \/ /\ ~ IsConnected
          /\ pending = "none"
          /\ Awaits(t, "rejected")
          /\ UNCHANGED <<queue, isPlaying, farewell, asked,
                         voiceVars, timerVars, playerVars, infoVars>>

\* The audio resource cannot be made, after the provider's own retry.
StreamFails(t) ==
    /\ Settled
    /\ chain[t].at = "stream"
    /\ Awaits(t, "failReport")
    /\ UNCHANGED <<queue, isPlaying, farewell, asked,
                   voiceVars, timerVars, playerVars, infoVars>>

\* Mutant of FailureReported: no recursion into the next song.
FailureReportedThenStop(t) ==
    /\ Settled
    /\ chain[t].at = "failReport"
    /\ queue' = RemoveCurrent(queue)
    /\ EndChain(t)
    /\ UNCHANGED <<isPlaying, farewell, asked,
                   voiceVars, timerVars, playerVars, infoVars>>

\* 'Failed to play' is sent.  The recovery removes the head of the queue as it
\* is now, and playNext recurses unless that was the last entry.
FailureReported(t) ==
    /\ Settled
    /\ chain[t].at = "failReport"
    /\ queue' = RemoveCurrent(queue)
    /\ IF queue' # <<>>
       THEN /\ PlayNext(t, queue', chain[t].by)
            /\ UNCHANGED isPlaying
       ELSE /\ Awaits(t, "emptyReport")
            /\ isPlaying' = FALSE
    /\ UNCHANGED <<farewell, asked, voiceVars, timerVars, playerVars, infoVars>>

\* 'Queue is empty.' is sent: playNext looks at the queue once more.
EmptyReported(t) ==
    /\ Settled
    /\ chain[t].at = "emptyReport"
    /\ IF queue # <<>> THEN PlayNext(t, queue, chain[t].by) ELSE EndChain(t)
    /\ UNCHANGED <<queue, isPlaying, farewell, asked,
                   voiceVars, timerVars, playerVars, infoVars>>

\* The connection this chain waited for is there.
Connected(t) == chain[t].at = "connected" /\ StartPlayback(t)

\* ... but the stream ended meanwhile: the player is created and subscribed,
\* and play() throws.
PlayThrows(t) ==
    /\ chain[t].at = "connected"
    /\ Subscribe
    /\ player' = TRUE
    /\ Awaits(t, "rejected")
    /\ UNCHANGED <<queue, isPlaying, farewell, asked,
                   timerVars, audio, orphans, infoVars>>

\* getOrCreateConnection or play() rejected.
Rejected(t) == chain[t].at = "rejected" /\ Fail(t)

\* The now-playing message is sent.  What follows, the song's statistics, no
\* longer touches this state and its failure is caught.
NowPlayingSent(t) ==
    /\ Settled
    /\ chain[t].at = "nowPlaying"
    /\ SetCurrentInfoMessage
    /\ EndChain(t)
    /\ UNCHANGED <<queue, isPlaying, farewell, asked,
                   voiceVars, timerVars, playerVars>>

\* A message cannot be sent.
SendFails(t) ==
    /\ Settled
    /\ chain[t].at \in {"failReport", "emptyReport", "nowPlaying"}
    /\ Fail(t)

-----------------------------------------------------------------------------
(* Voice connection, audio player, timers *)

JoinReady ==
    /\ Settled
    /\ JoinSucceeds
    /\ ReleaseWaiters("connected")
    /\ UNCHANGED <<queue, isPlaying, farewell, asked,
                   timerVars, playerVars, infoVars>>

JoinFails ==
    /\ Settled
    /\ JoinTimesOut
    /\ ReleaseWaiters("rejected")
    /\ UNCHANGED <<queue, isPlaying, farewell, asked,
                   timerVars, playerVars, infoVars>>

VoiceDrops ==
    /\ Settled /\ MayDrop /\ Disconnected
    /\ UNCHANGED <<queue, isPlaying, chain, farewell, asked,
                   timerVars, playerVars, infoVars>>

VoiceRecovers ==
    /\ Settled /\ Reconnected
    /\ UNCHANGED <<queue, isPlaying, chain, farewell, asked,
                   timerVars, playerVars, infoVars>>

\* The registered player becomes idle: its song ended, or its stream closed
\* before the first packet.
PlayerIdle ==
    /\ Settled /\ AudioEnds /\ OnIdle
    /\ UNCHANGED <<farewell, asked, voiceVars>>

\* A song can be heard to its end only through a ready connection.
SongEnds == heard = "current" /\ conn = "ready" /\ PlayerIdle

PlayerFails ==
    /\ Settled /\ AudioEnds /\ OnErrorThenIdle
    /\ UNCHANGED <<farewell, asked, voiceVars>>

\* A player that stop() dropped still runs the same callbacks.
OrphanIdle ==
    /\ Settled /\ OrphanEnds /\ OnIdle
    /\ UNCHANGED <<farewell, asked, voiceVars>>

OrphanFails ==
    /\ Settled /\ OrphanEnds /\ OnErrorThenIdle
    /\ UNCHANGED <<farewell, asked, voiceVars>>

\* Mutant of IdleTimerFires: the test of the queue is inverted.
IdleTimerFiresInverted(n) ==
    /\ Settled
    /\ IF queue # <<>> /\ ~ isPlaying
       THEN EndSession /\ TimerDisconnects(n)
       ELSE TimerPasses(n) /\ UNCHANGED <<queue, isPlaying, voiceVars, playerVars, infoVars>>
    /\ UNCHANGED <<chain, farewell, asked>>

\* The timer n fires: if nothing is queued or playing, stop.  Nobody awaits
\* the callback, so a stop that throws ends the process.
IdleTimerFires(n) ==
    /\ Settled
    /\ n \in armed
    /\ \/ /\ queue = <<>> /\ ~ isPlaying
          /\ EndSession
          /\ TimerDisconnects(n)
          /\ UNCHANGED <<chain, farewell, asked>>
       \/ queue = <<>> /\ ~ isPlaying /\ wrapper = "dead" /\ Restart
       \/ /\ queue # <<>> \/ isPlaying
          /\ TimerPasses(n)
          /\ UNCHANGED <<queue, isPlaying, chain, farewell, asked,
                         voiceVars, playerVars, infoVars>>

IdleNoticeSent(n) ==
    /\ Settled
    /\ TimerCallbackEnds(n)
    /\ UNCHANGED <<queue, isPlaying, chain, farewell, asked,
                   voiceVars, playerVars, infoVars>>

IdleNoticeFails(n) == Settled /\ n \in closing /\ Restart

\* The bot has been alone in its channel for 5 s: handleBotAlone sends its
\* message before it leaves.  Bound: one such call at a time.
BotAlone ==
    /\ Settled
    /\ ~ farewell
    /\ farewell' = TRUE
    /\ UNCHANGED <<queue, isPlaying, chain, asked,
                   voiceVars, timerVars, playerVars, infoVars>>

FarewellSent ==
    /\ Settled
    /\ farewell
    /\ \/ Stop /\ farewell' = FALSE /\ UNCHANGED <<chain, asked>>
       \/ wrapper = "dead" /\ Restart

FarewellFails == Settled /\ farewell /\ Restart

-----------------------------------------------------------------------------
(* Specification *)

ChainStep(t) ==
    \/ StreamReady(t) \/ StreamFails(t)
    \/ FailureReported(t) \/ EmptyReported(t) \/ NowPlayingSent(t)
    \/ SendFails(t)
    \/ Connected(t) \/ PlayThrows(t) \/ Rejected(t)

TimerStep(n) == IdleTimerFires(n) \/ IdleNoticeSent(n) \/ IdleNoticeFails(n)

Next ==
    \/ \E n \in 1..MaxBatch : Play(n)
    \/ Leave \/ Skip \/ ClearQueue \/ Shuffle
    \/ \E t \in Task : ChainStep(t)
    \/ JoinReady \/ JoinFails \/ VoiceDrops \/ VoiceRecovers
    \/ PlayerIdle \/ PlayerFails \/ OrphanIdle \/ OrphanFails
    \/ \E n \in Timer : TimerStep(n)
    \/ BotAlone \/ FarewellSent \/ FarewellFails

Spec == Init /\ [][Next]_vars

\* What the platform guarantees: every request to YouTube or Discord ends, one
\* way or the other, armed timers fire, and a song that is heard ends.  Users
\* and faults owe nothing.
Fairness ==
    /\ \A t \in Task : WF_vars(ChainStep(t))
    /\ WF_vars(JoinReady \/ JoinFails)
    /\ WF_vars(SongEnds)
    /\ \A n \in Timer : WF_vars(TimerStep(n))
    /\ WF_vars(FarewellSent \/ FarewellFails)

FairSpec == Spec /\ Fairness

-----------------------------------------------------------------------------
(* Properties *)

Drives(t) ==
    /\ chain[t].by \in {"play", "player"}
    /\ chain[t].at \in {"stream", "failReport", "join", "connected", "rejected"}

\* The bot is never wedged: play() starts a chain only when isPlaying is FALSE,
\* so whenever the flag is up someone must be there to take it down again: a
\* chain that has not reached its playback and was not started by /skip, or the
\* stream of the registered player.
PlayingIsDriven ==
    isPlaying => audio # NoSong \/ \E t \in Task : Drives(t)

\* While isPlaying is up no idle timer is registered: whatever raises the flag has
\* cleared the timer, and whatever registers one has lowered the flag.  It says nothing
\* of a chain that plays on with the flag down: the timer may end its song.
NoTimerWhilePlaying == isPlaying => timer = NoTimer

\* The registered idle timer is one that is still going to fire, although
\* timers that fire, are cleared or end late all write the same entry.
RegisteredTimerIsArmed == timer # NoTimer => timer \in armed

\* The entry of idleTimers follows the flag and the timers: with isPlaying up there is
\* none, and a callback that ends late never leaves one that will not fire.
TimerFollowsFlag == NoTimerWhilePlaying /\ RegisteredTimerIsArmed

\* The bot never sits in a voice channel that destroyConnection cannot reach,
\* and a player that stop() let go of is never the one that is heard.
NoLeakedConnection ==
    /\ conn \in {"ready", "disconnected"} => wrapper = "live"
    /\ wrapper = "live" => conn # "none"
    /\ heard # "orphan"
    /\ heard = "current" => player /\ wrapper = "live"

\* A chain waits for a voice connection exactly as long as a promise is pending
\* that will release it, also across stop() and reconnects; and the connection
\* is there when the chain runs.
WaitersHaveJoin ==
    /\ pending # "none" <=> \E t \in Task : chain[t].at = "join"
    /\ \A t \in Task : chain[t].at = "connected" => IsConnected

\* While the bot claims to play, the head of its queue does not stay forever:
\* each song is played, skipped, dropped or cleared (no voice loss).
HeadMovesOn ==
    \A s \in Song :
        (isPlaying /\ queue # <<>> /\ CurrentSong(queue) = s)
            ~> ~ (isPlaying /\ queue # <<>> /\ CurrentSong(queue) = s)

\* Once the idle timer of a connected, empty, silent guild runs, the bot leaves
\* the channel or somebody uses it again.
IdleBotLeaves ==
    (wrapper = "live" /\ armed # {} /\ queue = <<>> /\ ~ isPlaying)
        ~> (wrapper # "live" \/ queue # <<>> \/ isPlaying)

-----------------------------------------------------------------------------
(* What the documentation says and the code does not do *)

\* README.md of the module: "onError: (err) => skip -> playNext()", one song skipped.
ErrorSkipsOneSong ==
    [][PlayerFails => Len(queue') + 1 >= Len(queue)]_vars

=============================================================================
