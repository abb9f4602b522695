-------------------------- MODULE VoiceConnection ---------------------------
(***************************************************************************)
(* VoiceConnectionAdapter for one guild: its two maps, `connections` and   *)
(* `pendingConnections`, and the connection object of @discordjs/voice     *)
(* that they refer to.  The library keeps at most one connection per guild *)
(* that is not destroyed (joinVoiceChannel returns it again), so one       *)
(* variable holds its status.                                              *)
(*                                                                         *)
(* The operators below are parts of steps: each says what happens to the   *)
(* four variables of this module and leaves the rest to its user.          *)
(***************************************************************************)
VARIABLES
    conn,     \* status of the live library connection, "none" if there is none
    wrapper,  \* what the entry of `connections` refers to: "none" (no entry),
              \* the "live" connection, or a "dead" (destroyed) one
    pending,  \* the entry of `pendingConnections`: "none", a "joining" promise,
              \* or one that is "doomed" since its connection was destroyed
    heard     \* the player subscribed to conn: "nobody", the "current"
              \* (registered) one or an "orphan" nobody can stop any more

voiceVars == <<conn, wrapper, pending, heard>>

VoiceTypeOK ==
    /\ conn \in {"none", "connecting", "ready", "disconnected"}
    /\ wrapper \in {"none", "live", "dead"}
    /\ pending \in {"none", "joining", "doomed"}
    /\ heard \in {"nobody", "current", "orphan"}

VoiceInit ==
    /\ conn = "none"
    /\ wrapper = "none"
    /\ pending = "none"
    /\ heard = "nobody"

\* existing?.isConnected()
IsConnected == wrapper = "live" /\ conn = "ready"

\* createConnection up to its await: joinVoiceChannel makes a connection or
\* rejoins the one that lost its channel, and the promise is registered.
StartJoin ==
    /\ ~ IsConnected
    /\ pending = "none"
    /\ conn' = "connecting"
    /\ pending' = "joining"
    /\ UNCHANGED <<wrapper, heard>>

\* entersState(Ready) resolves: the entry is set, the promise is forgotten.
JoinSucceeds ==
    /\ pending = "joining"
    /\ conn' = "ready"
    /\ wrapper' = "live"
    /\ pending' = "none"
    /\ UNCHANGED heard

\* entersState times out.  A joining connection is destroyed, but `connections`
\* keeps the entry of an earlier join that used the same connection.  For a
\* doomed promise the second destroy() throws: the outcome is the same.
JoinTimesOut ==
    /\ pending # "none"
    /\ pending' = "none"
    /\ \/ /\ pending = "joining"
          /\ conn' = "none"
          /\ heard' = "nobody"
          /\ wrapper' = IF wrapper = "live" THEN "dead" ELSE wrapper
       \/ /\ pending = "doomed"
          /\ UNCHANGED <<conn, wrapper, heard>>

\* Mutant of DestroyConnection: the entry goes, the connection stays.
ForgetConnection ==
    /\ wrapper # "dead"
    /\ wrapper' = "none"
    /\ UNCHANGED <<conn, pending, heard>>

\* destroyConnection when it returns: an entry is destroyed and deleted.  A
\* pending join without an entry is not touched.  destroy() throws on a dead
\* entry: see StopThrows in PlayMusic.
DestroyConnection ==
    /\ wrapper # "dead"
    /\ wrapper' = "none"
    /\ IF wrapper = "live"
       THEN /\ conn' = "none"
            /\ heard' = "nobody"
            /\ pending' = IF pending = "joining" THEN "doomed" ELSE pending
       ELSE /\ heard' = IF heard = "current" THEN "orphan" ELSE heard
            /\ UNCHANGED <<conn, pending>>

\* connection.subscribe(player): one subscription per connection.
Subscribe == heard' = "current" /\ UNCHANGED <<conn, wrapper, pending>>

\* The bot loses its voice channel (kicked, moved, network) or regains it.
Disconnected ==
    /\ conn = "ready"
    /\ conn' = "disconnected"
    /\ UNCHANGED <<wrapper, pending, heard>>

Reconnected ==
    /\ conn = "disconnected"
    /\ conn' = "ready"
    /\ UNCHANGED <<wrapper, pending, heard>>

=============================================================================
