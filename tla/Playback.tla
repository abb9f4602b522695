------------------------------ MODULE Playback ------------------------------
(***************************************************************************)
(* What playNext needs of YouTube and leaves in the database: a stream,    *)
(* made with the PO token as it is, and the play of its song, recorded     *)
(* when it has begun.                                                      *)
(***************************************************************************)
EXTENDS PoToken, Songs

\* A chain of playNext makes one stream at a time.
ASSUME ChainAssumption == Chain = Stream

vars == <<poTokenVars, songVars>>

TypeOK == PoTokenTypeOK /\ SongsTypeOK

Init == PoTokenInit /\ SongsInit

\* A chain awaits its record before it ends.
PrepareStream(s) ==
    /\ call[s] = Idle
    /\ CreateStream(s)
    /\ UNCHANGED songVars

TryAgain(s) ==
    /\ Retry(s) \/ Pause(s)
    /\ UNCHANGED songVars

\* The song is played and its play recorded, unless the stream was given up or
\* something between the two failed.
Begins(s) ==
    /\ StreamSettles(s)
    /\ (\E u \in Url : Create(s, u)) \/ UNCHANGED songVars

Record(s) ==
    /\ Find(s) \/ Flush(s) \/ CreateFails(s)
    /\ UNCHANGED poTokenVars

Next ==
    \/ RefreshStep /\ UNCHANGED songVars
    \/ \E s \in Stream : PrepareStream(s) \/ TryAgain(s) \/ Begins(s) \/ Record(s)

Spec == Init /\ [][Next]_vars

=============================================================================
