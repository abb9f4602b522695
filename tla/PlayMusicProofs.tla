-------------------------- MODULE PlayMusicProofs ---------------------------
(***************************************************************************)
(* The safety properties of PlayMusic, proved for any number of songs,     *)
(* chains and timers.  The argument, in three parts:                       *)
(*                                                                         *)
(*  - Every step either restarts the process or consists of one part per   *)
(*    component (Parts): one operation on the voice connection, one on the *)
(*    timers, one on the player, one on the message, one on the chains.    *)
(*    NextSteps shows it once; type correctness and the timer's registry   *)
(*    then follow from the operations alone.                               *)
(*  - VoiceInv, the conjunction of NoLeakedConnection and WaitersHaveJoin, *)
(*    is inductive, while neither conjunct is: what a released chain finds *)
(*    depends on the promise it waited for.  Most steps are Quiet, that    *)
(*    is, move no chain into or out of a join.                             *)
(*  - PlayingIsDriven is inductive by itself: a step keeps the drivers     *)
(*    (Kept), starts one, hands over to the player, or lowers the flag.    *)
(***************************************************************************)
EXTENDS PlayMusic, TLAPS

\* The empty maps of a fresh process are well-typed.
LEMMA InitTypeOK == Init => TypeOK
<1> SUFFICES ASSUME Init PROVE TypeOK
  OBVIOUS
<1>1. VoiceTypeOK
  BY DEF Init, VoiceInit, VoiceTypeOK
<1>2. TimerTypeOK
  BY DEF Init, TimerInit, TimerTypeOK
<1>3. InfraTypeOK
  BY DEF Init, InfraInit, InfraTypeOK, NoSong
<1>4. chain \in [Task -> Chain]
  BY DEF Init, Chain, Free, Await
<1>5. queue \in Seq(Song)
  BY DEF Init
<1>6. isPlaying \in BOOLEAN /\ farewell \in BOOLEAN
  BY DEF Init
<1>7. asked \in 0..MaxSongs
  BY QueueAssumption DEF Init
<1> QED
  BY <1>1, <1>2, <1>3, <1>4, <1>5, <1>6, <1>7 DEF TypeOK

\* shift() returns a queue.
LEMMA RemoveCurrentType ==
  ASSUME NEW q \in Seq(Song)
  PROVE  RemoveCurrent(q) \in Seq(Song)
BY DEF RemoveCurrent

\* /empty leaves a queue of at most the current song.
LEMMA KeepCurrentType ==
  ASSUME NEW q \in Seq(Song)
  PROVE  KeepCurrent(q) \in Seq(Song)
BY DEF KeepCurrent

\* The head of a queue that is not empty is a song: playNext captures one.
LEMMA CurrentSongType ==
  ASSUME NEW q \in Seq(Song), q # <<>>
  PROVE  CurrentSong(q) \in Song
BY DEF CurrentSong

\* addSongs returns a queue, never empty, while requests are within MaxSongs.
LEMMA AddSongsType ==
  ASSUME NEW q \in Seq(Song), NEW k \in Nat, NEW n \in Nat \ {0}, k + n <= MaxSongs
  PROVE  /\ AddSongs(q, k, n) \in Seq(Song)
         /\ AddSongs(q, k, n) # <<>>
<1> DEFINE new == [i \in 1..n |-> k + i]
<1>1. new \in Seq(Song) /\ Len(new) = n
  BY QueueAssumption DEF Song
<1>2. q \o new \in Seq(Song) /\ Len(q \o new) = Len(q) + n
  BY <1>1
<1> QED
  BY <1>2 DEF AddSongs

\* A shuffle returns a queue of the same length.
LEMMA ShuffledType ==
  ASSUME NEW q \in Seq(Song), NEW r \in Shuffled(q)
  PROVE  r \in Seq(Song) /\ Len(r) = Len(q)
<1>1. PICK f \in Shufflings(Len(q)) : r = [i \in 1..Len(q) |-> q[f[i]]]
  BY DEF Shuffled
<1>2. f \in [1..Len(q) -> 1..Len(q)]
  BY DEF Shufflings
<1>3. \A i \in 1..Len(q) : q[f[i]] \in Song
  BY <1>2
<1> QED
  BY <1>1, <1>3

-----------------------------------------------------------------------------
(* What the parts of steps do to their component's type *)

VoicePart ==
    \/ StartJoin \/ JoinSucceeds \/ JoinTimesOut \/ DestroyConnection
    \/ Subscribe \/ Disconnected \/ Reconnected
    \/ UNCHANGED voiceVars

\* No operation of the voice adapter or its library leaves the connection's type.
LEMMA VoicePartType == VoiceTypeOK /\ VoicePart => VoiceTypeOK'
BY DEF VoiceTypeOK, VoicePart, StartJoin, JoinSucceeds, JoinTimesOut,
       DestroyConnection, Subscribe, Disconnected, Reconnected, voiceVars

TimerPart ==
    \/ ClearIdleTimer \/ ScheduleIdleDisconnect
    \/ \E n \in Timer :
         TimerPasses(n) \/ TimerDisconnects(n) \/ TimerCallbackEnds(n)
    \/ UNCHANGED timerVars

\* No operation on the idle timers leaves their type.
LEMMA TimerPartType == TimerTypeOK /\ TimerPart => TimerTypeOK'
BY DEF TimerTypeOK, TimerPart, ClearIdleTimer, ScheduleIdleDisconnect,
       TimerPasses, TimerDisconnects, TimerCallbackEnds, timerVars

PlayerTypeOK ==
    /\ player \in BOOLEAN
    /\ audio \in Song \cup {NoSong}
    /\ orphans \in Nat

InfoTypeOK ==
    /\ tracked \in BOOLEAN
    /\ shown \in Nat
    /\ tracked => shown > 0

\* The infrastructure's type is that of the player and that of the message.
LEMMA InfraParts == InfraTypeOK <=> PlayerTypeOK /\ InfoTypeOK
BY DEF InfraTypeOK, PlayerTypeOK, InfoTypeOK

PlayerPart ==
    \/ \E s \in Song : PlayOnPlayer(s)
    \/ AudioEnds \/ DeletePlayer \/ OrphanEnds
    \/ player' = TRUE /\ UNCHANGED <<audio, orphans>>
    \/ UNCHANGED playerVars

\* No operation on the audio player leaves its type.
LEMMA PlayerPartType == PlayerTypeOK /\ PlayerPart => PlayerTypeOK'
<1> SUFFICES ASSUME PlayerTypeOK, PlayerPart PROVE PlayerTypeOK'
  OBVIOUS
<1> USE DEF PlayerTypeOK
<1>1. ASSUME NEW s \in Song, PlayOnPlayer(s) PROVE PlayerTypeOK'
  BY <1>1 DEF PlayOnPlayer
<1>2. CASE AudioEnds
  BY <1>2 DEF AudioEnds
<1>3. CASE DeletePlayer
  <2>1. player' = FALSE /\ audio' = NoSong
    BY <1>3 DEF DeletePlayer
  <2>2. orphans' \in Nat
    BY <1>3 DEF DeletePlayer
  <2> QED
    BY <2>1, <2>2
<1>4. CASE OrphanEnds
  BY <1>4 DEF OrphanEnds
<1>5. CASE UNCHANGED playerVars
  BY <1>5 DEF playerVars
<1>6. CASE player' = TRUE /\ UNCHANGED <<audio, orphans>>
  BY <1>6
<1> QED
  BY <1>1, <1>2, <1>3, <1>4, <1>5, <1>6 DEF PlayerPart

InfoPart ==
    DeleteCurrentInfoMessage \/ SetCurrentInfoMessage \/ UNCHANGED infoVars

\* No operation on the now-playing message leaves its type; in particular a
\* tracked message stays one that is shown.
LEMMA InfoPartType == InfoTypeOK /\ InfoPart => InfoTypeOK'
<1> SUFFICES ASSUME InfoTypeOK, InfoPart PROVE InfoTypeOK'
  OBVIOUS
<1> USE DEF InfoTypeOK
<1>1. CASE DeleteCurrentInfoMessage
  <2>1. tracked' = FALSE
    BY <1>1 DEF DeleteCurrentInfoMessage
  <2>2. CASE tracked
    <3>1. shown' = shown - 1
      BY <1>1, <2>2 DEF DeleteCurrentInfoMessage
    <3>2. shown \in Nat /\ shown > 0
      BY <2>2
    <3>3. shown' \in Nat
      BY <3>1, <3>2
    <3> QED
      BY <2>1, <3>3, Zenon
  <2>3. CASE ~ tracked
    BY <1>1, <2>1, <2>3 DEF DeleteCurrentInfoMessage
  <2> QED
    BY <2>2, <2>3
<1>2. CASE SetCurrentInfoMessage
  BY <1>2 DEF SetCurrentInfoMessage
<1>3. CASE UNCHANGED infoVars
  BY <1>3 DEF infoVars
<1> QED
  BY <1>1, <1>2, <1>3 DEF InfoPart

ChainTypeOK == chain \in [Task -> Chain]

ChainPart ==
    \/ \E t \in Task, q \in Seq(Song), by \in {"play", "skip", "player"} :
         q # <<>> /\ PlayNext(t, q, by)
    \/ \E q1, q2 \in Seq(Song) :
         q1 # <<>> /\ q2 # <<>> /\ StartTwoChains(q1, q2)
    \/ \E t \in Task, x \in Await : chain[t] # Free /\ Awaits(t, x)
    \/ \E t \in Task : EndChain(t)
    \/ \E x \in Await : ReleaseWaiters(x)
    \/ UNCHANGED chain

\* A chain that starts, goes on, ends or is released stays well-typed.
LEMMA ChainPartType == ChainTypeOK /\ ChainPart => ChainTypeOK'
<1> SUFFICES ASSUME ChainTypeOK, ChainPart PROVE ChainTypeOK'
  OBVIOUS
<1>1. ASSUME NEW t \in Task, NEW q \in Seq(Song), q # <<>>,
             NEW by \in {"play", "skip", "player"}, PlayNext(t, q, by)
      PROVE  ChainTypeOK'
  <2>1. CurrentSong(q) \in Song
    BY <1>1, CurrentSongType
  <2> QED
    BY <1>1, <2>1 DEF ChainTypeOK, PlayNext, Chain, Await
<1>2. ASSUME NEW q1 \in Seq(Song), NEW q2 \in Seq(Song), q1 # <<>>, q2 # <<>>,
             StartTwoChains(q1, q2)
      PROVE  ChainTypeOK'
  <2>1. CurrentSong(q1) \in Song /\ CurrentSong(q2) \in Song
    BY <1>2, CurrentSongType
  <2> QED
    BY <1>2, <2>1 DEF ChainTypeOK, StartTwoChains, FreeTask, Chain, Await
<1>3. ASSUME NEW t \in Task, NEW x \in Await, chain[t] # Free, Awaits(t, x)
      PROVE  ChainTypeOK'
  BY <1>3 DEF ChainTypeOK, Awaits, Awaiting, Chain
<1>4. ASSUME NEW t \in Task, EndChain(t)
      PROVE  ChainTypeOK'
  BY <1>4 DEF ChainTypeOK, EndChain, Chain
<1>5. ASSUME NEW x \in Await, ReleaseWaiters(x)
      PROVE  ChainTypeOK'
  BY <1>5 DEF ChainTypeOK, ReleaseWaiters, Awaiting, Chain, Free
<1>6. CASE UNCHANGED chain
  BY <1>6 DEF ChainTypeOK
<1> QED
  BY <1>1, <1>2, <1>3, <1>4, <1>5, <1>6 DEF ChainPart

-----------------------------------------------------------------------------
(* Type correctness *)

GuildTypeOK ==
    /\ queue \in Seq(Song)
    /\ isPlaying \in BOOLEAN
    /\ farewell \in BOOLEAN
    /\ asked \in 0..MaxSongs

Parts == VoicePart /\ TimerPart /\ PlayerPart /\ InfoPart /\ ChainPart

\* A step made of one part per component keeps the whole state well-typed.
LEMMA TypeByParts ==
  ASSUME TypeOK, GuildTypeOK', Parts
  PROVE  TypeOK'
<1>1. VoiceTypeOK /\ TimerTypeOK /\ PlayerTypeOK /\ InfoTypeOK /\ ChainTypeOK
  BY InfraParts DEF TypeOK, ChainTypeOK
<1>2. VoiceTypeOK'
  BY <1>1, VoicePartType DEF Parts
<1>3. TimerTypeOK'
  BY <1>1, TimerPartType DEF Parts
<1>4. PlayerTypeOK' /\ InfoTypeOK'
  BY <1>1, PlayerPartType, InfoPartType DEF Parts
<1>5. InfraTypeOK'
  BY <1>4 DEF InfraTypeOK, PlayerTypeOK, InfoTypeOK
<1>6. ChainTypeOK'
  BY <1>1, ChainPartType DEF Parts
<1> QED
  BY <1>2, <1>3, <1>5, <1>6 DEF TypeOK, GuildTypeOK, ChainTypeOK

\* The four parts of a step that runs onIdle.
IdleParts ==
    /\ queue' \in Seq(Song)
    /\ isPlaying' \in BOOLEAN
    /\ TimerPart /\ InfoPart /\ ChainPart

\* onIdle is made of such parts.
LEMMA OnIdleParts == TypeOK /\ OnIdle => IdleParts
<1> SUFFICES ASSUME TypeOK, OnIdle PROVE IdleParts
  OBVIOUS
<1>1. queue' \in Seq(Song)
  BY RemoveCurrentType DEF TypeOK, OnIdle
<1>2. CASE queue' # <<>>
  <2>1. PICK t \in Task : PlayNext(t, queue', "player")
    BY <1>2 DEF OnIdle, StartChain, FreeTask
  <2>2. ChainPart
    BY <1>1, <1>2, <2>1 DEF ChainPart
  <2>3. UNCHANGED <<isPlaying, timerVars, infoVars>>
    BY <1>2 DEF OnIdle
  <2> QED
    BY <1>1, <2>2, <2>3 DEF IdleParts, TimerPart, InfoPart, TypeOK
<1>3. CASE queue' = <<>>
  BY <1>1, <1>3 DEF OnIdle, HandleQueueEmpty, IdleParts, TimerPart, InfoPart, ChainPart
<1> QED
  BY <1>2, <1>3

\* So is onError followed by onIdle in the same turn.
LEMMA OnErrorThenIdleParts == TypeOK /\ OnErrorThenIdle => IdleParts
<1> SUFFICES ASSUME TypeOK, OnErrorThenIdle PROVE IdleParts
  OBVIOUS
<1> DEFINE afterError == RemoveCurrent(queue)
<1>1. afterError \in Seq(Song)
  BY RemoveCurrentType DEF TypeOK
<1>2. queue' = RemoveCurrent(afterError) /\ queue' \in Seq(Song)
  BY <1>1, RemoveCurrentType DEF OnErrorThenIdle
<1>3. queue' # <<>> => afterError # <<>>
  BY <1>2 DEF RemoveCurrent
<1> HIDE DEF afterError
<1>4. CASE queue' # <<>>
  <2>1. StartTwoChains(afterError, queue')
    BY <1>4 DEF OnErrorThenIdle, afterError
  <2>2. ChainPart
    BY <1>1, <1>2, <1>3, <1>4, <2>1 DEF ChainPart
  <2>3. UNCHANGED <<isPlaying, timerVars, infoVars>>
    BY <1>4 DEF OnErrorThenIdle
  <2> QED
    BY <1>2, <2>2, <2>3 DEF IdleParts, TimerPart, InfoPart, TypeOK
<1>5. CASE queue' = <<>>
  <2>1. isPlaying' = FALSE /\ HandleQueueEmpty
    BY <1>5 DEF OnErrorThenIdle
  <2>2. ChainPart
    <3>1. CASE afterError # <<>>
      <4>1. PICK t \in Task : PlayNext(t, afterError, "player")
        BY <1>5, <3>1 DEF OnErrorThenIdle, StartChain, FreeTask, afterError
      <4> QED
        BY <1>1, <3>1, <4>1 DEF ChainPart
    <3>2. CASE afterError = <<>>
      BY <1>5, <3>2 DEF OnErrorThenIdle, ChainPart, afterError
    <3> QED
      BY <3>1, <3>2
  <2> QED
    BY <1>2, <2>1, <2>2 DEF IdleParts, HandleQueueEmpty, TimerPart, InfoPart
<1> QED
  BY <1>4, <1>5

\* So is stop() without its timer.
LEMMA EndSessionParts ==
  ASSUME TypeOK, EndSession
  PROVE  /\ queue' \in Seq(Song) /\ isPlaying' \in BOOLEAN
         /\ VoicePart /\ PlayerPart /\ InfoPart
<1>1. queue' \in Seq(Song)
  BY DEF EndSession
<1>2. isPlaying' \in BOOLEAN
  BY DEF EndSession
<1>3. VoicePart /\ PlayerPart /\ InfoPart
  BY DEF EndSession, VoicePart, PlayerPart, InfoPart
<1> QED
  BY <1>1, <1>2, <1>3

\* A restarted process is well-typed.
LEMMA RestartType == TypeOK /\ Restart => TypeOK'
<1> SUFFICES ASSUME TypeOK, Restart PROVE TypeOK'
  OBVIOUS
<1>1. VoiceTypeOK'
  BY DEF Restart, VoiceTypeOK
<1>2. TimerTypeOK'
  BY DEF Restart, TimerTypeOK
<1>3. InfraTypeOK'
  BY DEF Restart, InfraTypeOK, NoSong
<1>4. chain' \in [Task -> Chain]
  BY DEF Restart, Chain
<1>5. queue' \in Seq(Song)
  BY DEF Restart
<1>6. isPlaying' \in BOOLEAN /\ farewell' \in BOOLEAN
  BY DEF Restart
<1>7. asked' \in 0..MaxSongs
  BY DEF Restart, TypeOK
<1> QED
  BY <1>1, <1>2, <1>3, <1>4, <1>5, <1>6, <1>7 DEF TypeOK

\* What every step does: the process restarts, or the step consists of one part
\* per component.
StepOK == Restart \/ (GuildTypeOK' /\ Parts)

\* Each of the three ways a rejection of playNext ends is such a step.
LEMMA FailStep ==
  ASSUME TypeOK, NEW t \in Task, Fail(t)
  PROVE  StepOK
<1>1. CASE PlayRejects(t)
  <2>1. GuildTypeOK'
    BY <1>1 DEF PlayRejects, TypeOK, GuildTypeOK
  <2>2. Parts
    BY <1>1 DEF PlayRejects, Parts, TimerPart, PlayerPart, InfoPart, VoicePart, ChainPart
  <2> QED
    BY <2>1, <2>2 DEF StepOK
<1>2. CASE SkipRejects(t)
  <2>1. GuildTypeOK'
    BY <1>2 DEF SkipRejects, TypeOK, GuildTypeOK
  <2>2. Parts
    BY <1>2 DEF SkipRejects, Parts, TimerPart, PlayerPart, InfoPart, VoicePart, ChainPart
  <2> QED
    BY <2>1, <2>2 DEF StepOK
<1>3. CASE CallbackRejects(t)
  BY <1>3 DEF StepOK, CallbackRejects
<1> QED
  BY <1>1, <1>2, <1>3 DEF Fail

\* A chain that subscribes and plays takes such a step.
LEMMA StartPlaybackStep ==
  ASSUME TypeOK, NEW t \in Task, chain[t].at # "free", StartPlayback(t)
  PROVE  StepOK
<1>1. GuildTypeOK'
  BY DEF StartPlayback, TypeOK, GuildTypeOK
<1>2. chain[t] # Free /\ chain[t].song \in Song
  BY DEF TypeOK, Chain, Free
<1>3. VoicePart /\ TimerPart /\ InfoPart
  BY DEF StartPlayback, VoicePart, TimerPart, InfoPart
<1>4. PlayerPart
  BY <1>2 DEF StartPlayback, PlayerPart
<1>5. ChainPart
  BY <1>2 DEF StartPlayback, ChainPart, Await
<1> QED
  BY <1>1, <1>3, <1>4, <1>5 DEF StepOK, Parts

\* stop(), complete or broken off by a throw, is such a step.
LEMMA SessionStep ==
  ASSUME TypeOK, Stop \/ (StopThrows /\ InfoPart),
         ChainPart, UNCHANGED asked, farewell' \in BOOLEAN
  PROVE  StepOK
<1>1. asked' \in 0..MaxSongs
  BY DEF TypeOK
<1>2. CASE Stop
  <2>1. queue' \in Seq(Song) /\ isPlaying' \in BOOLEAN
        /\ VoicePart /\ PlayerPart /\ InfoPart
    BY <1>2, EndSessionParts DEF Stop
  <2>2. TimerPart
    BY <1>2 DEF Stop, TimerPart
  <2> QED
    BY <1>1, <2>1, <2>2 DEF StepOK, Parts, GuildTypeOK
<1>3. CASE StopThrows /\ InfoPart
  <2>1. queue' \in Seq(Song)
    BY <1>3 DEF StopThrows
  <2>2. isPlaying' \in BOOLEAN
    BY <1>3 DEF StopThrows
  <2>3. VoicePart /\ PlayerPart /\ TimerPart
    BY <1>3 DEF StopThrows, VoicePart, PlayerPart, TimerPart
  <2> QED
    BY <1>1, <1>3, <2>1, <2>2, <2>3 DEF StepOK, Parts, GuildTypeOK
<1> QED
  BY <1>2, <1>3

\* Every command of a user is such a step.
LEMMA CommandSteps ==
  ASSUME TypeOK,
         \/ \E n \in 1..MaxBatch : Play(n)
         \/ Leave \/ Skip \/ ClearQueue \/ Shuffle
  PROVE  StepOK
<1> USE DEF TypeOK
<1>1. ASSUME NEW n \in 1..MaxBatch, Play(n) PROVE StepOK
  <2>1. n \in Nat \ {0} /\ asked \in Nat /\ asked + n <= MaxSongs
    BY <1>1, PlayAssumption, QueueAssumption DEF Play
  <2>2. asked' \in 0..MaxSongs
    BY <1>1, <2>1, QueueAssumption DEF Play
  <2>3. queue' \in Seq(Song) /\ queue' # <<>>
    BY <1>1, <2>1, AddSongsType DEF Play, PlayUseCase
  <2>4. isPlaying' \in BOOLEAN /\ farewell' \in BOOLEAN
    BY <1>1 DEF Play, PlayUseCase
  <2>5. TimerPart
    BY <1>1 DEF Play, PlayUseCase, TimerPart
  <2>6. ChainPart
    <3>1. CASE isPlaying
      BY <1>1, <3>1 DEF Play, PlayUseCase, ChainPart
    <3>2. CASE ~ isPlaying
      <4>1. PICK t \in Task : PlayNext(t, queue', "play")
        BY <1>1, <3>2 DEF Play, PlayUseCase, StartChain, FreeTask
      <4> QED
        BY <2>3, <4>1 DEF ChainPart
    <3> QED
      BY <3>1, <3>2
  <2>7. VoicePart /\ PlayerPart /\ InfoPart
    BY <1>1 DEF Play, VoicePart, PlayerPart, InfoPart
  <2> QED
    BY <2>2, <2>3, <2>4, <2>5, <2>6, <2>7 DEF StepOK, Parts, GuildTypeOK
<1>2. CASE Leave
  <2>1. ChainPart /\ (Stop \/ (StopThrows /\ InfoPart))
    BY <1>2 DEF Leave, LeaveChannel, ChainPart, InfoPart
  <2>2. UNCHANGED asked /\ farewell' \in BOOLEAN
    BY <1>2 DEF Leave, LeaveChannel
  <2> QED
    BY <2>1, <2>2, SessionStep
<1>3. CASE Skip
  <2>1. UNCHANGED asked /\ farewell' \in BOOLEAN
    BY <1>3 DEF Skip
  <2>2. CASE RemoveCurrent(queue) # <<>> /\ queue' = RemoveCurrent(queue)
             /\ StartChain(queue', "skip") /\ DeleteCurrentInfoMessage
             /\ UNCHANGED <<isPlaying, voiceVars, timerVars, playerVars>>
    <3>1. queue' \in Seq(Song)
      BY <2>2, RemoveCurrentType
    <3>2. PICK t \in Task : PlayNext(t, queue', "skip")
      BY <2>2 DEF StartChain, FreeTask
    <3>3. ChainPart
      BY <2>2, <3>1, <3>2 DEF ChainPart
    <3>4. GuildTypeOK'
      BY <2>1, <2>2, <3>1 DEF GuildTypeOK
    <3>5. VoicePart /\ TimerPart /\ PlayerPart /\ InfoPart
      BY <2>2 DEF VoicePart, TimerPart, PlayerPart, InfoPart
    <3> QED
      BY <3>3, <3>4, <3>5 DEF StepOK, Parts
  <2>3. CASE (Stop \/ (StopThrows /\ DeleteCurrentInfoMessage)) /\ UNCHANGED chain
    BY <2>1, <2>3, SessionStep DEF InfoPart, ChainPart
  <2> QED
    BY <1>3, <2>2, <2>3 DEF Skip, SkipUseCase
<1>4. CASE ClearQueue
  <2>1. queue' \in Seq(Song)
    BY <1>4, KeepCurrentType DEF ClearQueue
  <2>2. GuildTypeOK'
    BY <1>4, <2>1 DEF ClearQueue, GuildTypeOK
  <2>3. Parts
    BY <1>4 DEF ClearQueue, Parts, VoicePart, TimerPart, PlayerPart, InfoPart, ChainPart
  <2> QED
    BY <2>2, <2>3 DEF StepOK
<1>5. CASE Shuffle
  <2>1. queue' \in Seq(Song)
    BY <1>5, ShuffledType DEF Shuffle
  <2>2. GuildTypeOK'
    BY <1>5, <2>1 DEF Shuffle, GuildTypeOK
  <2>3. Parts
    BY <1>5 DEF Shuffle, Parts, VoicePart, TimerPart, PlayerPart, InfoPart, ChainPart
  <2> QED
    BY <2>2, <2>3 DEF StepOK
<1> QED
  BY <1>1, <1>2, <1>3, <1>4, <1>5

\* Every segment of a playNext chain is such a step.
LEMMA ChainSteps ==
  ASSUME TypeOK, NEW t \in Task, ChainStep(t)
  PROVE  StepOK
<1> USE DEF TypeOK
<1>0. ASSUME chain[t].at # "free" PROVE chain[t] # Free
  BY <1>0 DEF Free
<1>1. CASE StreamReady(t)
  <2>1. chain[t].at = "stream"
    BY <1>1 DEF StreamReady
  <2>2. CASE StartPlayback(t)
    BY <2>1, <2>2, StartPlaybackStep
  <2>3. ASSUME NEW x \in {"join", "rejected"}, Awaits(t, x), VoicePart,
               UNCHANGED <<queue, isPlaying, farewell, asked,
                           timerVars, playerVars, infoVars>>
        PROVE  StepOK
    <3>1. GuildTypeOK'
      BY <2>3 DEF GuildTypeOK
    <3>2. ChainPart
      BY <1>0, <2>1, <2>3 DEF ChainPart, Await
    <3>3. TimerPart /\ PlayerPart /\ InfoPart
      BY <2>3 DEF TimerPart, PlayerPart, InfoPart
    <3> QED
      BY <2>3, <3>1, <3>2, <3>3 DEF StepOK, Parts
  <2> QED
    BY <1>1, <2>2, <2>3 DEF StreamReady, VoicePart
<1>2. CASE StreamFails(t)
  <2>1. GuildTypeOK'
    BY <1>2 DEF StreamFails, GuildTypeOK
  <2>2. ChainPart
    BY <1>0, <1>2 DEF StreamFails, ChainPart, Await
  <2>3. VoicePart /\ TimerPart /\ PlayerPart /\ InfoPart
    BY <1>2 DEF StreamFails, VoicePart, TimerPart, PlayerPart, InfoPart
  <2> QED
    BY <2>1, <2>2, <2>3 DEF StepOK, Parts
<1>3. CASE FailureReported(t)
  <2>1. queue' \in Seq(Song)
    BY <1>3, RemoveCurrentType DEF FailureReported
  <2>2. isPlaying' \in BOOLEAN /\ farewell' \in BOOLEAN
    BY <1>3 DEF FailureReported
  <2>3. chain[t] # Free /\ chain[t].by \in {"play", "skip", "player"}
    BY <1>0, <1>3 DEF FailureReported, Chain
  <2>4. ChainPart
    <3>1. CASE queue' # <<>>
      BY <1>3, <2>1, <2>3, <3>1 DEF FailureReported, ChainPart
    <3>2. CASE queue' = <<>>
      BY <1>3, <2>3, <3>2 DEF FailureReported, ChainPart, Await
    <3> QED
      BY <3>1, <3>2
  <2>5. VoicePart /\ TimerPart /\ PlayerPart /\ InfoPart /\ asked' = asked
    BY <1>3 DEF FailureReported, VoicePart, TimerPart, PlayerPart, InfoPart
  <2> QED
    BY <2>1, <2>2, <2>4, <2>5 DEF StepOK, Parts, GuildTypeOK
<1>4. CASE EmptyReported(t)
  <2>1. GuildTypeOK'
    BY <1>4 DEF EmptyReported, GuildTypeOK
  <2>2. chain[t].by \in {"play", "skip", "player"}
    BY <1>0, <1>4 DEF EmptyReported, Chain
  <2>3. ChainPart
    <3>1. CASE queue # <<>>
      BY <1>4, <2>2, <3>1 DEF EmptyReported, ChainPart
    <3>2. CASE queue = <<>>
      BY <1>4, <3>2 DEF EmptyReported, ChainPart
    <3> QED
      BY <3>1, <3>2
  <2>4. VoicePart /\ TimerPart /\ PlayerPart /\ InfoPart
    BY <1>4 DEF EmptyReported, VoicePart, TimerPart, PlayerPart, InfoPart
  <2> QED
    BY <2>1, <2>3, <2>4 DEF StepOK, Parts
<1>5. CASE NowPlayingSent(t)
  <2>1. GuildTypeOK'
    BY <1>5 DEF NowPlayingSent, GuildTypeOK
  <2>2. Parts
    BY <1>5 DEF NowPlayingSent, Parts, ChainPart, VoicePart, TimerPart,
                PlayerPart, InfoPart
  <2> QED
    BY <2>1, <2>2 DEF StepOK
<1>6. CASE SendFails(t)
  BY <1>6, FailStep DEF SendFails
<1>7. CASE Connected(t)
  BY <1>7, StartPlaybackStep DEF Connected
<1>8. CASE PlayThrows(t)
  <2>1. GuildTypeOK'
    BY <1>8 DEF PlayThrows, GuildTypeOK
  <2>2. ChainPart
    BY <1>0, <1>8 DEF PlayThrows, ChainPart, Await
  <2>3. VoicePart /\ TimerPart /\ PlayerPart /\ InfoPart
    BY <1>8 DEF PlayThrows, VoicePart, TimerPart, PlayerPart, InfoPart
  <2> QED
    BY <2>1, <2>2, <2>3 DEF StepOK, Parts
<1>9. CASE Rejected(t)
  BY <1>9, FailStep DEF Rejected
<1> QED
  BY <1>1, <1>2, <1>3, <1>4, <1>5, <1>6, <1>7, <1>8, <1>9 DEF ChainStep

\* Every voice, player and farewell event is such a step.
LEMMA EventSteps ==
  ASSUME TypeOK,
         \/ JoinReady \/ JoinFails \/ VoiceDrops \/ VoiceRecovers
         \/ PlayerIdle \/ PlayerFails \/ OrphanIdle \/ OrphanFails
         \/ BotAlone \/ FarewellSent \/ FarewellFails
  PROVE  StepOK
<1> USE DEF TypeOK
<1>1. CASE JoinReady \/ JoinFails
  <2>1. GuildTypeOK'
    BY <1>1 DEF JoinReady, JoinFails, GuildTypeOK
  <2>2. ChainPart
    BY <1>1 DEF JoinReady, JoinFails, ChainPart, Await
  <2>3. VoicePart /\ TimerPart /\ PlayerPart /\ InfoPart
    BY <1>1 DEF JoinReady, JoinFails, VoicePart, TimerPart, PlayerPart, InfoPart
  <2> QED
    BY <2>1, <2>2, <2>3 DEF StepOK, Parts
<1>2. CASE VoiceDrops \/ VoiceRecovers
  <2>1. GuildTypeOK'
    BY <1>2 DEF VoiceDrops, VoiceRecovers, GuildTypeOK
  <2>2. Parts
    BY <1>2 DEF VoiceDrops, VoiceRecovers, Parts, ChainPart, VoicePart,
                TimerPart, PlayerPart, InfoPart
  <2> QED
    BY <2>1, <2>2 DEF StepOK
<1>3. CASE PlayerIdle \/ OrphanIdle \/ PlayerFails \/ OrphanFails
  <2>1. IdleParts
    BY <1>3, OnIdleParts, OnErrorThenIdleParts
    DEF PlayerIdle, OrphanIdle, PlayerFails, OrphanFails
  <2>2. UNCHANGED <<farewell, asked, voiceVars>>
    BY <1>3 DEF PlayerIdle, OrphanIdle, PlayerFails, OrphanFails
  <2>3. PlayerPart
    BY <1>3 DEF PlayerIdle, OrphanIdle, PlayerFails, OrphanFails, PlayerPart
  <2>4. VoicePart
    BY <2>2 DEF VoicePart
  <2>5. GuildTypeOK'
    BY <2>1, <2>2 DEF IdleParts, GuildTypeOK
  <2> QED
    BY <2>1, <2>3, <2>4, <2>5 DEF StepOK, IdleParts, Parts
<1>4. CASE BotAlone
  <2>1. GuildTypeOK'
    BY <1>4 DEF BotAlone, GuildTypeOK
  <2>2. Parts
    BY <1>4 DEF BotAlone, Parts, ChainPart, VoicePart, TimerPart, PlayerPart, InfoPart
  <2> QED
    BY <2>1, <2>2 DEF StepOK
<1>5. CASE FarewellSent
  <2>1. CASE Stop /\ farewell' = FALSE /\ UNCHANGED <<chain, asked>>
    <3>1. ChainPart
      BY <2>1 DEF ChainPart
    <3>2. farewell' \in BOOLEAN
      BY <2>1
    <3> QED
      BY <2>1, <3>1, <3>2, SessionStep
  <2>2. CASE Restart
    BY <2>2 DEF StepOK
  <2> QED
    BY <1>5, <2>1, <2>2 DEF FarewellSent
<1>6. CASE FarewellFails
  BY <1>6 DEF StepOK, FarewellFails
<1> QED
  BY <1>1, <1>2, <1>3, <1>4, <1>5, <1>6

\* Every callback of an idle timer is such a step.
LEMMA TimerSteps ==
  ASSUME TypeOK, NEW n \in Timer, TimerStep(n)
  PROVE  StepOK
<1> USE DEF TypeOK
<1>1. CASE IdleTimerFires(n)
  <2>1. CASE EndSession /\ TimerDisconnects(n) /\ UNCHANGED <<chain, farewell, asked>>
    <3>1. queue' \in Seq(Song) /\ isPlaying' \in BOOLEAN
          /\ VoicePart /\ PlayerPart /\ InfoPart
      BY <2>1, EndSessionParts
    <3>2. GuildTypeOK'
      BY <2>1, <3>1 DEF GuildTypeOK
    <3>3. TimerPart /\ ChainPart
      BY <2>1 DEF TimerPart, ChainPart
    <3> QED
      BY <3>1, <3>2, <3>3 DEF StepOK, Parts
  <2>2. CASE Restart
    BY <2>2 DEF StepOK
  <2>3. CASE TimerPasses(n) /\ UNCHANGED <<queue, isPlaying, chain, farewell, asked,
                                           voiceVars, playerVars, infoVars>>
    <3>1. GuildTypeOK'
      BY <2>3 DEF GuildTypeOK
    <3>2. Parts
      BY <2>3 DEF Parts, ChainPart, VoicePart, TimerPart, PlayerPart, InfoPart
    <3> QED
      BY <3>1, <3>2 DEF StepOK
  <2> QED
    BY <1>1, <2>1, <2>2, <2>3 DEF IdleTimerFires
<1>2. CASE IdleNoticeSent(n)
  <2>1. GuildTypeOK'
    BY <1>2 DEF IdleNoticeSent, GuildTypeOK
  <2>2. Parts
    BY <1>2 DEF IdleNoticeSent, Parts, ChainPart, VoicePart, TimerPart, PlayerPart, InfoPart
  <2> QED
    BY <2>1, <2>2 DEF StepOK
<1>3. CASE IdleNoticeFails(n)
  BY <1>3 DEF StepOK, IdleNoticeFails
<1> QED
  BY <1>1, <1>2, <1>3 DEF TimerStep

\* Doing nothing is such a step.
LEMMA StutterStep == TypeOK /\ UNCHANGED vars => StepOK
<1> SUFFICES ASSUME TypeOK, UNCHANGED vars PROVE StepOK
  OBVIOUS
<1>1. GuildTypeOK'
  BY DEF vars, TypeOK, GuildTypeOK
<1>2. Parts
  BY DEF vars, Parts, ChainPart, VoicePart, TimerPart, PlayerPart, InfoPart
<1> QED
  BY <1>1, <1>2 DEF StepOK

\* Every step of the guild restarts the process or has one part per component.
LEMMA NextSteps == TypeOK /\ [Next]_vars => StepOK
BY CommandSteps, ChainSteps, EventSteps, TimerSteps, StutterStep DEF Next

(* Every reachable state of the guild is well-typed; in particular a message   *)
(* that is tracked as current is one that is on display.                       *)
THEOREM TypeCorrect == Spec => []TypeOK
<1>1. Init => TypeOK
  BY InitTypeOK
<1>2. TypeOK /\ [Next]_vars => TypeOK'
  BY NextSteps, RestartType, TypeByParts DEF StepOK
<1> QED
  BY <1>1, <1>2, PTL DEF Spec

-----------------------------------------------------------------------------
(* The idle timer *)

(* The registered idle timer is going to fire, whatever timers were cleared,   *)
(* replaced, fired or ended their callback late before.                        *)
THEOREM RegisteredTimerArmed == Spec => []RegisteredTimerIsArmed
<1>1. Init => RegisteredTimerIsArmed
  BY DEF Init, TimerInit, RegisteredTimerIsArmed
<1>2. RegisteredTimerIsArmed /\ TimerPart => RegisteredTimerIsArmed'
  BY TimerAssumption
  DEF RegisteredTimerIsArmed, TimerPart, ClearIdleTimer, ScheduleIdleDisconnect,
      TimerPasses, TimerDisconnects, TimerCallbackEnds, timerVars
<1>3. Restart => RegisteredTimerIsArmed'
  BY DEF Restart, RegisteredTimerIsArmed
<1>4. TypeOK /\ RegisteredTimerIsArmed /\ [Next]_vars => RegisteredTimerIsArmed'
  BY <1>2, <1>3, NextSteps DEF StepOK, Parts
<1> QED
  BY <1>1, <1>4, TypeCorrect, PTL DEF Spec

\* A step that touches the flag or the timer lowers the one or clears the other.
FlagAndTimer == isPlaying' = FALSE \/ timer' = NoTimer \/ UNCHANGED <<isPlaying, timer>>

\* The player's callbacks lower the flag when they arm a timer.
LEMMA IdleFlagAndTimer ==
  ASSUME OnIdle \/ OnErrorThenIdle
  PROVE  FlagAndTimer
<1>1. CASE queue' # <<>>
  <2>1. UNCHANGED <<isPlaying, timerVars>>
    BY <1>1 DEF OnIdle, OnErrorThenIdle
  <2> QED
    BY <2>1 DEF FlagAndTimer, timerVars
<1>2. CASE queue' = <<>>
  <2>1. isPlaying' = FALSE
    BY <1>2 DEF OnIdle, OnErrorThenIdle
  <2> QED
    BY <2>1 DEF FlagAndTimer
<1> QED
  BY <1>1, <1>2

\* A rejected playNext only lowers the flag or clears the timer.
LEMMA FailFlagAndTimer ==
  ASSUME NEW t \in Task, Fail(t)
  PROVE  FlagAndTimer
BY DEF Fail, PlayRejects, SkipRejects, CallbackRejects, Restart, FlagAndTimer, timerVars

\* Every step keeps that discipline.
LEMMA NextFlagAndTimer ==
  ASSUME [Next]_vars
  PROVE  FlagAndTimer
<1> USE DEF FlagAndTimer, timerVars
<1>1. ASSUME NEW n \in 1..MaxBatch, Play(n) PROVE FlagAndTimer
  BY <1>1 DEF Play, PlayUseCase, ClearIdleTimer
<1>2. CASE Leave
  BY <1>2 DEF Leave, LeaveChannel, Stop, EndSession, StopThrows
<1>3. CASE Skip
  BY <1>3 DEF Skip, SkipUseCase, Stop, EndSession, StopThrows
<1>4. CASE ClearQueue \/ Shuffle
  BY <1>4 DEF ClearQueue, Shuffle
<1>5. ASSUME NEW t \in Task, ChainStep(t) PROVE FlagAndTimer
  <2>1. CASE StreamReady(t)
    BY <2>1 DEF StreamReady, StartPlayback
  <2>2. CASE StreamFails(t) \/ EmptyReported(t) \/ NowPlayingSent(t)
    BY <2>2 DEF StreamFails, EmptyReported, NowPlayingSent
  <2>3. CASE FailureReported(t)
    BY <2>3 DEF FailureReported
  <2>4. CASE SendFails(t) \/ Rejected(t)
    BY <2>4, FailFlagAndTimer DEF SendFails, Rejected
  <2>5. CASE Connected(t) \/ PlayThrows(t)
    BY <2>5 DEF Connected, StartPlayback, PlayThrows
  <2> QED
    BY <1>5, <2>1, <2>2, <2>3, <2>4, <2>5 DEF ChainStep
<1>6. CASE JoinReady \/ JoinFails \/ VoiceDrops \/ VoiceRecovers
  BY <1>6 DEF JoinReady, JoinFails, VoiceDrops, VoiceRecovers
<1>7. CASE PlayerIdle \/ OrphanIdle \/ PlayerFails \/ OrphanFails
  BY <1>7, IdleFlagAndTimer DEF PlayerIdle, OrphanIdle, PlayerFails, OrphanFails
<1>8. ASSUME NEW n \in Timer, TimerStep(n) PROVE FlagAndTimer
  BY <1>8 DEF TimerStep, IdleTimerFires, IdleNoticeSent, IdleNoticeFails,
              TimerDisconnects, TimerPasses, TimerCallbackEnds, Restart
<1>9. CASE BotAlone \/ FarewellSent \/ FarewellFails
  BY <1>9 DEF BotAlone, FarewellSent, FarewellFails, Stop, EndSession, Restart
<1>10. CASE UNCHANGED vars
  BY <1>10 DEF vars
<1> QED
  BY <1>1, <1>2, <1>3, <1>4, <1>5, <1>6, <1>7, <1>8, <1>9, <1>10 DEF Next

(* No handler leaves isPlaying up and an idle timer registered: what raises    *)
(* the flag clears the timer, what registers one has lowered the flag.         *)
THEOREM NoTimerUnderFlag == Spec => []NoTimerWhilePlaying
<1>1. Init => NoTimerWhilePlaying
  BY DEF Init, NoTimerWhilePlaying
<1>2. NoTimerWhilePlaying /\ [Next]_vars => NoTimerWhilePlaying'
  BY NextFlagAndTimer DEF NoTimerWhilePlaying, FlagAndTimer
<1> QED
  BY <1>1, <1>2, PTL DEF Spec

(* The entry of idleTimers follows the flag and the timers: there is none      *)
(* while isPlaying is up, and one that is registered still fires.              *)
THEOREM TimerFollowsTheFlag == Spec => []TimerFollowsFlag
<1>1. NoTimerWhilePlaying /\ RegisteredTimerIsArmed => TimerFollowsFlag
  BY DEF TimerFollowsFlag
<1> QED
  BY <1>1, NoTimerUnderFlag, RegisteredTimerArmed, PTL

-----------------------------------------------------------------------------
(* The voice connection and the chains that wait for it *)

\* No chain begins or ceases to wait for a join, and none is released.
Quiet ==
    \A t \in Task :
        /\ chain'[t].at = "join" <=> chain[t].at = "join"
        /\ chain'[t].at = "connected" => chain[t].at = "connected"

\* A chain that begins playNext again does not wait for a join.
LEMMA QuietPlayNext ==
  ASSUME ChainTypeOK, NEW t \in Task, chain[t].at # "join",
         NEW q, NEW by, PlayNext(t, q, by)
  PROVE  Quiet
BY DEF ChainTypeOK, PlayNext, Quiet

\* A new chain does not wait for a join yet.
LEMMA QuietStart ==
  ASSUME ChainTypeOK, NEW q, NEW by, StartChain(q, by)
  PROVE  Quiet
BY QuietPlayNext DEF StartChain, FreeTask

\* Nor do the two chains of a stream error.
LEMMA QuietStartTwo ==
  ASSUME ChainTypeOK, NEW q1, NEW q2, StartTwoChains(q1, q2)
  PROVE  Quiet
BY DEF ChainTypeOK, StartTwoChains, FreeTask, Quiet

\* Nor does a chain that goes on to await something else.
LEMMA QuietAwaits ==
  ASSUME ChainTypeOK, NEW t \in Task, chain[t].at # "join",
         NEW x, x # "join", x # "connected", Awaits(t, x)
  PROVE  Quiet
BY DEF ChainTypeOK, Awaits, Awaiting, Quiet

\* A chain that ends was not waiting for a join.
LEMMA QuietEnd ==
  ASSUME ChainTypeOK, NEW t \in Task, chain[t].at # "join", EndChain(t)
  PROVE  Quiet
BY DEF ChainTypeOK, EndChain, Free, Quiet

\* Where no chain moves, none waits or is released.
LEMMA QuietUnchanged == UNCHANGED chain => Quiet
BY DEF Quiet

\* The player's callbacks start chains and release none.
LEMMA QuietIdle ==
  ASSUME ChainTypeOK, OnIdle \/ OnErrorThenIdle
  PROVE  Quiet
BY QuietStart, QuietStartTwo, QuietUnchanged DEF OnIdle, OnErrorThenIdle

VoiceInv == NoLeakedConnection /\ WaitersHaveJoin

\* A quiet step that leaves the connection alone preserves the invariant.
LEMMA QuietStep ==
  ASSUME VoiceInv, Quiet, UNCHANGED voiceVars, player' = player \/ player' = TRUE
  PROVE  VoiceInv'
<1>1. UNCHANGED <<conn, wrapper, pending, heard>>
  BY DEF voiceVars
<1>2. WaitersHaveJoin'
  BY <1>1 DEF VoiceInv, WaitersHaveJoin, Quiet, IsConnected
<1>3. player => player'
  OBVIOUS
<1>4. NoLeakedConnection'
  BY <1>1, <1>3 DEF VoiceInv, NoLeakedConnection
<1> QED
  BY <1>2, <1>4 DEF VoiceInv

\* A restarted process has neither connection nor waiters.
LEMMA RestartVoice ==
  ASSUME Restart
  PROVE  VoiceInv'
BY DEF Restart, VoiceInv, NoLeakedConnection, WaitersHaveJoin, Free

\* stop() between two events.
LEMMA EndSessionVoice ==
  ASSUME TypeOK, VoiceInv, Settled, EndSession, UNCHANGED chain
  PROVE  VoiceInv'
<1> USE DEF VoiceInv, EndSession, DestroyConnection
<1>1. pending' # "none" <=> pending # "none"
  BY DEF TypeOK, VoiceTypeOK
<1>2. WaitersHaveJoin'
  BY <1>1 DEF WaitersHaveJoin, Settled
<1>3. NoLeakedConnection'
  <2>1. CASE wrapper = "live"
    <3>1. conn' = "none" /\ heard' = "nobody" /\ wrapper' = "none"
      BY <2>1
    <3> QED
      BY <3>1 DEF NoLeakedConnection
  <2>2. CASE wrapper # "live"
    <3>1. conn \notin {"ready", "disconnected"} /\ heard = "nobody"
      BY <2>2 DEF NoLeakedConnection, TypeOK, VoiceTypeOK
    <3>2. conn' = conn /\ heard' = "nobody" /\ wrapper' = "none"
      BY <2>2, <3>1
    <3> QED
      BY <3>1, <3>2 DEF NoLeakedConnection
  <2> QED
    BY <2>1, <2>2
<1> QED
  BY <1>2, <1>3

\* A playback that starts, or fails to start, on a ready connection.
LEMMA SubscribeVoice ==
  ASSUME VoiceInv, IsConnected, Quiet, Subscribe, player' = TRUE
  PROVE  VoiceInv'
<1>1. WaitersHaveJoin'
  BY DEF VoiceInv, WaitersHaveJoin, Quiet, Subscribe, IsConnected
<1>2. NoLeakedConnection'
  BY DEF VoiceInv, NoLeakedConnection, Subscribe, IsConnected
<1> QED
  BY <1>1, <1>2 DEF VoiceInv

\* A rejected playNext leaves the connection alone or restarts the process.
LEMMA FailVoice ==
  ASSUME ChainTypeOK, VoiceInv, NEW t \in Task, chain[t].at # "join", Fail(t)
  PROVE  VoiceInv'
<1>1. CASE PlayRejects(t) \/ SkipRejects(t)
  <2>1. Quiet
    BY <1>1, QuietEnd DEF PlayRejects, SkipRejects
  <2>2. UNCHANGED <<voiceVars, playerVars>>
    BY <1>1 DEF PlayRejects, SkipRejects
  <2> QED
    BY <2>1, <2>2, QuietStep DEF playerVars
<1>2. CASE CallbackRejects(t)
  BY <1>2, RestartVoice DEF CallbackRejects
<1> QED
  BY <1>1, <1>2 DEF Fail

\* Every command preserves the invariant of the voice connection.
LEMMA CommandVoice ==
  ASSUME TypeOK, VoiceInv,
         \/ \E n \in 1..MaxBatch : Play(n)
         \/ Leave \/ Skip \/ ClearQueue \/ Shuffle
  PROVE  VoiceInv'
<1>0. ChainTypeOK
  BY DEF TypeOK, ChainTypeOK
<1>1. ASSUME NEW n \in 1..MaxBatch, Play(n) PROVE VoiceInv'
  <2>1. Quiet
    BY <1>0, <1>1, QuietStart, QuietUnchanged DEF Play, PlayUseCase
  <2> QED
    BY <1>1, <2>1, QuietStep DEF Play, playerVars
<1>2. CASE StopThrows /\ UNCHANGED chain
  BY <1>2, QuietUnchanged, QuietStep DEF StopThrows, playerVars
<1>3. CASE Leave
  BY <1>2, <1>3, EndSessionVoice DEF Leave, LeaveChannel, Stop
<1>4. CASE Skip
  <2>1. CASE StartChain(queue', "skip") /\ UNCHANGED <<voiceVars, playerVars>>
    BY <1>0, <2>1, QuietStart, QuietStep DEF playerVars
  <2>2. CASE Stop /\ UNCHANGED chain
    BY <1>4, <2>2, EndSessionVoice DEF Skip, Stop
  <2> QED
    BY <1>2, <1>4, <2>1, <2>2 DEF Skip, SkipUseCase
<1>5. CASE ClearQueue \/ Shuffle
  BY <1>5, QuietUnchanged, QuietStep DEF ClearQueue, Shuffle, playerVars
<1> QED
  BY <1>1, <1>3, <1>4, <1>5

\* Every segment of a chain preserves it: the one that starts a join begins to wait.
LEMMA ChainVoice ==
  ASSUME TypeOK, VoiceInv, NEW t \in Task, ChainStep(t)
  PROVE  VoiceInv'
<1>0. ChainTypeOK
  BY DEF TypeOK, ChainTypeOK
<1>1. ASSUME IsConnected, StartPlayback(t), chain[t].at # "join" PROVE VoiceInv'
  <2>1. Quiet
    BY <1>0, <1>1, QuietAwaits DEF StartPlayback
  <2> QED
    BY <1>1, <2>1, SubscribeVoice DEF StartPlayback, PlayOnPlayer
<1>2. CASE StreamReady(t)
  <2>1. Settled /\ chain[t].at = "stream"
    BY <1>2 DEF StreamReady
  <2>2. ASSUME Awaits(t, "join"), pending' # "none", UNCHANGED <<wrapper, heard, player>>,
               conn' = conn \/ (conn' = "connecting" /\ ~ IsConnected)
        PROVE  VoiceInv'
    <3>1. chain'[t].at = "join"
      BY <1>0, <2>2 DEF ChainTypeOK, Awaits, Awaiting
    <3>2. \A u \in Task : chain'[u].at # "connected"
      BY <1>0, <2>1, <2>2 DEF ChainTypeOK, Awaits, Awaiting, Settled
    <3>3. WaitersHaveJoin'
      BY <2>2, <3>1, <3>2 DEF WaitersHaveJoin
    <3>4. NoLeakedConnection'
      BY <2>2 DEF VoiceInv, NoLeakedConnection
    <3> QED
      BY <3>3, <3>4 DEF VoiceInv
  <2>3. CASE pending # "none" /\ Awaits(t, "join") /\ UNCHANGED <<voiceVars, playerVars>>
    BY <2>2, <2>3 DEF voiceVars, playerVars
  <2>4. CASE StartJoin /\ Awaits(t, "join") /\ UNCHANGED playerVars
    BY <2>2, <2>4 DEF StartJoin, playerVars
  <2>5. CASE Awaits(t, "rejected") /\ UNCHANGED <<voiceVars, playerVars>>
    BY <1>0, <2>1, <2>5, QuietAwaits, QuietStep DEF playerVars
  <2> QED
    BY <1>1, <1>2, <2>1, <2>3, <2>4, <2>5 DEF StreamReady
<1>3. CASE StreamFails(t)
  <2>1. Quiet
    BY <1>0, <1>3, QuietAwaits DEF StreamFails
  <2> QED
    BY <1>3, <2>1, QuietStep DEF StreamFails, playerVars
<1>4. CASE FailureReported(t)
  <2>1. Quiet
    BY <1>0, <1>4, QuietPlayNext, QuietAwaits DEF FailureReported
  <2> QED
    BY <1>4, <2>1, QuietStep DEF FailureReported, playerVars
<1>5. CASE EmptyReported(t)
  <2>1. Quiet
    BY <1>0, <1>5, QuietPlayNext, QuietEnd DEF EmptyReported
  <2> QED
    BY <1>5, <2>1, QuietStep DEF EmptyReported, playerVars
<1>6. CASE NowPlayingSent(t)
  <2>1. Quiet
    BY <1>0, <1>6, QuietEnd DEF NowPlayingSent
  <2> QED
    BY <1>6, <2>1, QuietStep DEF NowPlayingSent, playerVars
<1>7. CASE SendFails(t) \/ Rejected(t)
  BY <1>0, <1>7, FailVoice DEF SendFails, Rejected
<1>8. CASE Connected(t)
  BY <1>1, <1>8 DEF Connected, VoiceInv, WaitersHaveJoin
<1>9. CASE PlayThrows(t)
  <2>1. Quiet
    BY <1>0, <1>9, QuietAwaits DEF PlayThrows
  <2> QED
    BY <1>9, <2>1, SubscribeVoice DEF PlayThrows, VoiceInv, WaitersHaveJoin
<1> QED
  BY <1>2, <1>3, <1>4, <1>5, <1>6, <1>7, <1>8, <1>9 DEF ChainStep

\* A join that ends, well or not, releases every chain that waits for it.
LEMMA JoinVoice ==
  ASSUME TypeOK, VoiceInv, JoinReady \/ JoinFails
  PROVE  VoiceInv'
<1>0. ChainTypeOK /\ \A t \in Task : chain[t].at # "connected"
  BY DEF TypeOK, ChainTypeOK, JoinReady, JoinFails, Settled
<1>1. pending' = "none"
  BY DEF JoinReady, JoinFails, JoinSucceeds, JoinTimesOut
<1>2. CASE JoinReady
  <2>1. \A t \in Task : chain'[t].at # "join"
    BY <1>0, <1>2 DEF JoinReady, ReleaseWaiters, Awaiting, ChainTypeOK
  <2>2. conn' = "ready" /\ wrapper' = "live"
    BY <1>2 DEF JoinReady, JoinSucceeds
  <2>3. WaitersHaveJoin'
    BY <1>1, <2>1, <2>2 DEF WaitersHaveJoin, IsConnected
  <2>4. heard' = heard /\ player' = player
    BY <1>2 DEF JoinReady, JoinSucceeds, playerVars
  <2>5. NoLeakedConnection'
    BY <2>2, <2>4 DEF VoiceInv, NoLeakedConnection
  <2> QED
    BY <2>3, <2>5 DEF VoiceInv
<1>3. CASE JoinFails
  <2>1. \A t \in Task : chain'[t].at \notin {"join", "connected"}
    BY <1>0, <1>3 DEF JoinFails, ReleaseWaiters, Awaiting, ChainTypeOK
  <2>2. WaitersHaveJoin'
    BY <1>1, <2>1 DEF WaitersHaveJoin
  <2>3. NoLeakedConnection'
    BY <1>3 DEF JoinFails, JoinTimesOut, VoiceInv, NoLeakedConnection, playerVars
  <2> QED
    BY <2>2, <2>3 DEF VoiceInv
<1> QED
  BY <1>2, <1>3

\* Every voice, player and farewell event preserves it.
LEMMA EventVoice ==
  ASSUME TypeOK, VoiceInv,
         \/ JoinReady \/ JoinFails \/ VoiceDrops \/ VoiceRecovers
         \/ PlayerIdle \/ PlayerFails \/ OrphanIdle \/ OrphanFails
         \/ BotAlone \/ FarewellSent \/ FarewellFails
  PROVE  VoiceInv'
<1>0. ChainTypeOK
  BY DEF TypeOK, ChainTypeOK
<1>1. CASE JoinReady \/ JoinFails
  BY <1>1, JoinVoice
<1>2. CASE VoiceDrops \/ VoiceRecovers
  <2>1. UNCHANGED <<chain, wrapper, pending, heard, player>> /\ Settled
    BY <1>2 DEF VoiceDrops, VoiceRecovers, Disconnected, Reconnected, playerVars
  <2>2. WaitersHaveJoin'
    BY <2>1 DEF VoiceInv, WaitersHaveJoin, Settled
  <2>3. conn \in {"ready", "disconnected"} /\ conn' \in {"ready", "disconnected"}
    BY <1>2 DEF VoiceDrops, VoiceRecovers, Disconnected, Reconnected
  <2>4. NoLeakedConnection'
    BY <2>1, <2>3 DEF VoiceInv, NoLeakedConnection
  <2> QED
    BY <2>2, <2>4 DEF VoiceInv
<1>3. CASE PlayerIdle \/ OrphanIdle \/ PlayerFails \/ OrphanFails
  <2>1. Quiet
    BY <1>0, <1>3, QuietIdle DEF PlayerIdle, OrphanIdle, PlayerFails, OrphanFails
  <2>2. UNCHANGED <<voiceVars, player>>
    BY <1>3 DEF PlayerIdle, OrphanIdle, PlayerFails, OrphanFails, AudioEnds, OrphanEnds
  <2> QED
    BY <2>1, <2>2, QuietStep
<1>4. CASE BotAlone
  BY <1>4, QuietUnchanged, QuietStep DEF BotAlone, playerVars
<1>5. CASE FarewellSent
  BY <1>5, EndSessionVoice, RestartVoice DEF FarewellSent, Stop
<1>6. CASE FarewellFails
  BY <1>6, RestartVoice DEF FarewellFails
<1> QED
  BY <1>1, <1>2, <1>3, <1>4, <1>5, <1>6

\* Every callback of an idle timer preserves it.
LEMMA TimerVoice ==
  ASSUME TypeOK, VoiceInv, NEW n \in Timer, TimerStep(n)
  PROVE  VoiceInv'
<1>1. CASE IdleTimerFires(n)
  <2>1. CASE EndSession /\ UNCHANGED chain
    BY <1>1, <2>1, EndSessionVoice DEF IdleTimerFires
  <2>2. CASE Restart
    BY <2>2, RestartVoice
  <2>3. CASE UNCHANGED <<chain, voiceVars, playerVars>>
    BY <2>3, QuietUnchanged, QuietStep DEF playerVars
  <2> QED
    BY <1>1, <2>1, <2>2, <2>3 DEF IdleTimerFires
<1>2. CASE IdleNoticeSent(n)
  BY <1>2, QuietUnchanged, QuietStep DEF IdleNoticeSent, playerVars
<1>3. CASE IdleNoticeFails(n)
  BY <1>3, RestartVoice DEF IdleNoticeFails
<1> QED
  BY <1>1, <1>2, <1>3 DEF TimerStep

\* The two halves of the invariant hold together: the connection a released
\* chain finds is the one destroyConnection reaches.
LEMMA VoiceInvariant == Spec => []VoiceInv
<1>1. Init => VoiceInv
  BY DEF Init, VoiceInit, VoiceInv, NoLeakedConnection, WaitersHaveJoin, Free
<1>2. TypeOK /\ VoiceInv /\ UNCHANGED vars => VoiceInv'
  BY QuietUnchanged, QuietStep DEF vars, playerVars
<1>3. TypeOK /\ VoiceInv /\ [Next]_vars => VoiceInv'
  BY <1>2, CommandVoice, ChainVoice, EventVoice, TimerVoice DEF Next
<1> QED
  BY <1>1, <1>3, TypeCorrect, PTL DEF Spec

(* The bot never sits in a voice channel that destroyConnection cannot reach,  *)
(* and never plays there with a player that stop() has let go of.              *)
THEOREM ConnectionNeverLeaks == Spec => []NoLeakedConnection
BY VoiceInvariant, PTL DEF VoiceInv

(* A playNext chain waits for a join exactly as long as a pending promise will *)
(* release it, also when the session is stopped meanwhile; when it runs again  *)
(* the connection is there.                                                    *)
THEOREM WaitersAreReleased == Spec => []WaitersHaveJoin
BY VoiceInvariant, PTL DEF VoiceInv

-----------------------------------------------------------------------------
(* A guild that claims to play is driven *)

\* Every chain that drives the guild still does after the step.
Kept == \A u \in Task : Drives(u) => Drives(u)'

Driven == audio # NoSong \/ \E t \in Task : Drives(t)

\* A step that keeps the drivers and the stream, and does not raise the flag,
\* leaves the guild driven.
LEMMA KeptStep ==
  ASSUME PlayingIsDriven, Kept, UNCHANGED audio,
         UNCHANGED isPlaying \/ isPlaying' = FALSE
  PROVE  PlayingIsDriven'
<1>1. Driven => Driven'
  BY DEF Driven, Kept
<1>2. isPlaying' => isPlaying
  OBVIOUS
<1> QED
  BY <1>1, <1>2 DEF PlayingIsDriven, Driven

\* Where no chain moves, every driver is kept.
LEMMA KeptUnchanged == UNCHANGED chain => Kept
BY DEF Kept, Drives

\* A new chain takes a free slot: no driver is lost.
LEMMA KeptStart ==
  ASSUME ChainTypeOK, NEW q, NEW by, StartChain(q, by)
  PROVE  Kept
BY DEF ChainTypeOK, StartChain, FreeTask, PlayNext, Kept, Drives

\* A chain that play or the player starts is a driver.
LEMMA StartDrives ==
  ASSUME ChainTypeOK, NEW q, NEW by \in {"play", "player"}, StartChain(q, by)
  PROVE  \E t \in Task : Drives(t)'
BY DEF ChainTypeOK, StartChain, FreeTask, PlayNext, Drives

\* So are the two that a stream error starts.
LEMMA StartTwoDrives ==
  ASSUME ChainTypeOK, NEW q1, NEW q2, StartTwoChains(q1, q2)
  PROVE  \E t \in Task : Drives(t)'
<1>1. PICK t1, t2 \in FreeTask :
        /\ t1 # t2
        /\ chain' = [chain EXCEPT
             ![t1] = [at |-> "stream", song |-> CurrentSong(q1), by |-> "player"],
             ![t2] = [at |-> "stream", song |-> CurrentSong(q2), by |-> "player"]]
  BY DEF StartTwoChains
<1>2. chain'[t2] = [at |-> "stream", song |-> CurrentSong(q2), by |-> "player"]
  BY <1>1 DEF ChainTypeOK, FreeTask
<1> QED
  BY <1>2 DEF Drives, FreeTask

\* A driver that recurses into the next song stays one.
LEMMA KeptPlayNext ==
  ASSUME ChainTypeOK, NEW t \in Task, NEW q, PlayNext(t, q, chain[t].by)
  PROVE  Kept
BY DEF ChainTypeOK, PlayNext, Kept, Drives

\* A driver that has not reached its playback stays one.
LEMMA KeptAwaits ==
  ASSUME ChainTypeOK, NEW t \in Task, Awaits(t, "failReport") \/ Awaits(t, "join")
                                     \/ Awaits(t, "rejected")
  PROVE  Kept
BY DEF ChainTypeOK, Awaits, Awaiting, Kept, Drives

\* A chain that ends past its playback was not a driver.
LEMMA KeptEnd ==
  ASSUME ChainTypeOK, NEW t \in Task, ~ Drives(t), EndChain(t)
  PROVE  Kept
BY DEF ChainTypeOK, EndChain, Kept, Drives

\* With the flag down there is nothing to drive.
LEMMA StopDriven == isPlaying' = FALSE => PlayingIsDriven'
BY DEF PlayingIsDriven

\* The player's callbacks start a driver or lower the flag.
LEMMA IdleDriven ==
  ASSUME ChainTypeOK, OnIdle \/ OnErrorThenIdle
  PROVE  PlayingIsDriven'
<1>1. CASE queue' # <<>>
  <2>1. \E t \in Task : Drives(t)'
    BY <1>1, StartDrives, StartTwoDrives DEF OnIdle, OnErrorThenIdle
  <2> QED
    BY <2>1 DEF PlayingIsDriven
<1>2. CASE queue' = <<>>
  BY <1>2, StopDriven DEF OnIdle, OnErrorThenIdle
<1> QED
  BY <1>1, <1>2

\* A rejection under play lowers the flag, one under skip ends no driver, one under
\* a callback restarts the process.
LEMMA FailDriven ==
  ASSUME ChainTypeOK, PlayingIsDriven, NEW t \in Task, Fail(t)
  PROVE  PlayingIsDriven'
<1>1. CASE PlayRejects(t)
  BY <1>1, StopDriven DEF PlayRejects
<1>2. CASE SkipRejects(t)
  <2>1. Kept
    BY <1>2, KeptEnd DEF SkipRejects, Drives
  <2> QED
    BY <1>2, <2>1, KeptStep DEF SkipRejects, playerVars
<1>3. CASE CallbackRejects(t)
  BY <1>3, StopDriven DEF CallbackRejects, Restart
<1> QED
  BY <1>1, <1>2, <1>3 DEF Fail

\* A chain that starts its playback hands over to the stream of the player.
LEMMA PlaybackDriven ==
  ASSUME TypeOK, NEW t \in Task, chain[t].at # "free", StartPlayback(t)
  PROVE  PlayingIsDriven'
<1>1. chain[t].song \in Song
  BY DEF TypeOK, Chain, Free
<1>2. audio' # NoSong
  BY <1>1, QueueAssumption DEF StartPlayback, PlayOnPlayer, Song, NoSong
<1> QED
  BY <1>2 DEF PlayingIsDriven

\* Every command leaves the guild driven.
LEMMA CommandDriven ==
  ASSUME TypeOK, PlayingIsDriven,
         \/ \E n \in 1..MaxBatch : Play(n)
         \/ Leave \/ Skip \/ ClearQueue \/ Shuffle
  PROVE  PlayingIsDriven'
<1>0. ChainTypeOK
  BY DEF TypeOK, ChainTypeOK
<1>1. ASSUME NEW n \in 1..MaxBatch, Play(n) PROVE PlayingIsDriven'
  <2>1. CASE isPlaying
    <3>1. UNCHANGED <<chain, isPlaying, audio>>
      BY <1>1, <2>1 DEF Play, PlayUseCase, playerVars
    <3> QED
      BY <3>1, KeptUnchanged, KeptStep
  <2>2. CASE ~ isPlaying
    <3>1. \E t \in Task : Drives(t)'
      BY <1>0, <1>1, <2>2, StartDrives DEF Play, PlayUseCase
    <3> QED
      BY <3>1 DEF PlayingIsDriven
  <2> QED
    BY <2>1, <2>2
<1>2. CASE Leave
  BY <1>2, StopDriven DEF Leave, LeaveChannel, Stop, EndSession, StopThrows
<1>3. CASE Skip
  <2>1. CASE StartChain(queue', "skip") /\ UNCHANGED <<isPlaying, playerVars>>
    BY <1>0, <2>1, KeptStart, KeptStep DEF playerVars
  <2>2. CASE Stop \/ StopThrows
    BY <2>2, StopDriven DEF Stop, EndSession, StopThrows
  <2> QED
    BY <1>3, <2>1, <2>2 DEF Skip, SkipUseCase
<1>4. CASE ClearQueue \/ Shuffle
  BY <1>4, KeptUnchanged, KeptStep DEF ClearQueue, Shuffle, playerVars
<1> QED
  BY <1>1, <1>2, <1>3, <1>4

\* Every segment of a chain leaves it driven.
LEMMA ChainDriven ==
  ASSUME TypeOK, PlayingIsDriven, NEW t \in Task, ChainStep(t)
  PROVE  PlayingIsDriven'
<1>0. ChainTypeOK
  BY DEF TypeOK, ChainTypeOK
<1>1. CASE StreamReady(t)
  <2>1. CASE StartPlayback(t)
    BY <1>1, <2>1, PlaybackDriven DEF StreamReady
  <2>2. CASE /\ Awaits(t, "join") \/ Awaits(t, "rejected")
             /\ UNCHANGED <<isPlaying, playerVars>>
    BY <1>0, <2>2, KeptAwaits, KeptStep DEF playerVars
  <2> QED
    BY <1>1, <2>1, <2>2 DEF StreamReady
<1>2. CASE StreamFails(t)
  BY <1>0, <1>2, KeptAwaits, KeptStep DEF StreamFails, playerVars
<1>3. CASE FailureReported(t)
  <2>1. CASE queue' # <<>>
    BY <1>0, <1>3, <2>1, KeptPlayNext, KeptStep DEF FailureReported, playerVars
  <2>2. CASE queue' = <<>>
    BY <1>3, <2>2, StopDriven DEF FailureReported
  <2> QED
    BY <2>1, <2>2
<1>4. CASE EmptyReported(t)
  <2>1. Kept
    BY <1>0, <1>4, KeptPlayNext, KeptEnd DEF EmptyReported, Drives
  <2> QED
    BY <1>4, <2>1, KeptStep DEF EmptyReported, playerVars
<1>5. CASE NowPlayingSent(t)
  <2>1. Kept
    BY <1>0, <1>5, KeptEnd DEF NowPlayingSent, Drives
  <2> QED
    BY <1>5, <2>1, KeptStep DEF NowPlayingSent, playerVars
<1>6. CASE SendFails(t) \/ Rejected(t)
  BY <1>0, <1>6, FailDriven DEF SendFails, Rejected
<1>7. CASE Connected(t)
  BY <1>7, PlaybackDriven DEF Connected
<1>8. CASE PlayThrows(t)
  BY <1>0, <1>8, KeptAwaits, KeptStep DEF PlayThrows
<1> QED
  BY <1>1, <1>2, <1>3, <1>4, <1>5, <1>6, <1>7, <1>8 DEF ChainStep

\* Every voice, player and farewell event leaves it driven.
LEMMA EventDriven ==
  ASSUME TypeOK, PlayingIsDriven,
         \/ JoinReady \/ JoinFails \/ VoiceDrops \/ VoiceRecovers
         \/ PlayerIdle \/ PlayerFails \/ OrphanIdle \/ OrphanFails
         \/ BotAlone \/ FarewellSent \/ FarewellFails
  PROVE  PlayingIsDriven'
<1>0. ChainTypeOK
  BY DEF TypeOK, ChainTypeOK
<1>1. CASE JoinReady \/ JoinFails
  <2>1. Kept
    BY <1>0, <1>1 DEF JoinReady, JoinFails, ReleaseWaiters, Awaiting, ChainTypeOK, Kept, Drives
  <2> QED
    BY <1>1, <2>1, KeptStep DEF JoinReady, JoinFails, playerVars
<1>2. CASE VoiceDrops \/ VoiceRecovers \/ BotAlone
  BY <1>2, KeptUnchanged, KeptStep DEF VoiceDrops, VoiceRecovers, BotAlone, playerVars
<1>3. CASE PlayerIdle \/ OrphanIdle \/ PlayerFails \/ OrphanFails
  BY <1>0, <1>3, IdleDriven DEF PlayerIdle, OrphanIdle, PlayerFails, OrphanFails
<1>4. CASE FarewellSent \/ FarewellFails
  BY <1>4, StopDriven DEF FarewellSent, FarewellFails, Stop, EndSession, Restart
<1> QED
  BY <1>1, <1>2, <1>3, <1>4

\* Every callback of an idle timer leaves it driven.
LEMMA TimerDriven ==
  ASSUME PlayingIsDriven, NEW n \in Timer, TimerStep(n)
  PROVE  PlayingIsDriven'
<1>1. CASE EndSession \/ Restart
  BY <1>1, StopDriven DEF EndSession, Restart
<1>2. CASE UNCHANGED <<chain, isPlaying, playerVars>>
  BY <1>2, KeptUnchanged, KeptStep DEF playerVars
<1> QED
  BY <1>1, <1>2 DEF TimerStep, IdleTimerFires, IdleNoticeSent, IdleNoticeFails

(* The bot is never wedged: whenever isPlaying is up, so that /play only adds  *)
(* to the queue, a chain or the player's own stream is there to go on.         *)
THEOREM NeverWedged == Spec => []PlayingIsDriven
<1>1. Init => PlayingIsDriven
  BY DEF Init, PlayingIsDriven
<1>2. PlayingIsDriven /\ UNCHANGED vars => PlayingIsDriven'
  BY KeptUnchanged, KeptStep DEF vars, playerVars
<1>3. TypeOK /\ PlayingIsDriven /\ [Next]_vars => PlayingIsDriven'
  BY <1>2, CommandDriven, ChainDriven, EventDriven, TimerDriven DEF Next
<1> QED
  BY <1>1, <1>3, TypeCorrect, PTL DEF Spec

=============================================================================
