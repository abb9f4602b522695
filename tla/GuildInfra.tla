----------------------------- MODULE GuildInfra -----------------------------
(***************************************************************************)
(* GuildInfraStateManager for one guild: the registered audio player and   *)
(* the now-playing message, with what becomes of those that are no longer  *)
(* registered.  An audio player is an AudioPlayer of @discordjs/voice: a   *)
(* player that holds a stream raises events until the stream is gone, also *)
(* when nobody refers to it any more.                                      *)
(***************************************************************************)
EXTENDS QueueState

VARIABLES
    player,   \* TRUE: a player is registered
    audio,    \* the entry whose stream the registered player holds, or NoSong
    orphans,  \* how many unregistered players still hold a stream
    tracked,  \* TRUE: currentInfoMessage is set
    shown     \* how many now-playing messages are on display

playerVars == <<player, audio, orphans>>
infoVars   == <<tracked, shown>>

InfraTypeOK ==
    /\ player \in BOOLEAN
    /\ audio \in Song \cup {NoSong}
    /\ orphans \in Nat
    /\ tracked \in BOOLEAN
    /\ shown \in Nat
    /\ tracked => shown > 0

InfraInit ==
    /\ player = FALSE
    /\ audio = NoSong
    /\ orphans = 0
    /\ tracked = FALSE
    /\ shown = 0

\* Mutant of DeleteCurrentInfoMessage: the field is not reset.
DeleteButRemember ==
    /\ shown' = IF tracked THEN shown - 1 ELSE shown
    /\ UNCHANGED tracked

\* deleteCurrentInfoMessage
DeleteCurrentInfoMessage ==
    /\ shown' = IF tracked THEN shown - 1 ELSE shown
    /\ tracked' = FALSE

\* setCurrentInfoMessage with a message just sent: it overwrites the field.
SetCurrentInfoMessage ==
    /\ shown' = shown + 1
    /\ tracked' = TRUE

\* setPlayer, if there is none, and player.play: the stream of s replaces the
\* one the player holds, without an idle event.
PlayOnPlayer(s) ==
    /\ player' = TRUE
    /\ audio' = s
    /\ UNCHANGED orphans

\* The player stops holding a stream and stays registered.
AudioEnds ==
    /\ audio # NoSong
    /\ audio' = NoSong
    /\ UNCHANGED <<player, orphans>>

\* player.stop() and deletePlayer.  stop() only asks for silence frames, and
\* without a connection to send them to the player never becomes idle.
DeletePlayer ==
    /\ player' = FALSE
    /\ audio' = NoSong
    /\ orphans' = IF audio # NoSong THEN orphans + 1 ELSE orphans

\* An orphan loses its stream.
OrphanEnds ==
    /\ orphans > 0
    /\ orphans' = orphans - 1
    /\ UNCHANGED <<player, audio>>

=============================================================================
