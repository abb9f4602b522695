----------------------------- MODULE Migrations -----------------------------
(***************************************************************************)
(* The migrations of the services, which share one database and have a     *)
(* schema each: auth, notification and sayho.  MikroORM keeps the journal  *)
(* of a service, the table migrations, in the service's schema, and runs   *)
(* what is pending in one transaction, which is rolled back when PostgreSQL *)
(* refuses a statement.                                                    *)
(*                                                                         *)
(* A service has one table.  Its shape is named by the number of the       *)
(* migrations that made it, 0 if there is none.                            *)
(***************************************************************************)
EXTENDS Naturals

VARIABLES
    table,    \* the shape of each service's table
    journal,  \* the migrations its journal holds; NoJournal: the schema has none
    upAll     \* how far migration:up:all is

vars == <<table, journal, upAll>>

Service == {"auth", "notification", "sayho-bot"}

\* The migrations in each service's directory.
Last == [s \in Service |-> IF s = "auth" THEN 1 ELSE 3]

NoJournal == 100
Refused   == 101  \* the shape that a refused statement leaves

TypeOK ==
    /\ \A s \in Service : table[s] \in 0..Last[s]
    /\ \A s \in Service : journal[s] \in 0..Last[s] \cup {NoJournal}
    /\ upAll \in {"idle", "done"} \cup Service

\* A database that has just been created.
Init ==
    /\ table = [s \in Service |-> 0]
    /\ journal = [s \in Service |-> NoJournal]
    /\ upAll = "idle"

Applied(s) == IF journal[s] = NoJournal THEN 0 ELSE journal[s]

-----------------------------------------------------------------------------
(* The migrations: the shape each leaves of the one it finds. *)

From(before, shape, after) == IF shape = before THEN after ELSE Refused

CreateUser(shape)               == From(0, shape, 1)
CreateNotification(shape)       == From(0, shape, 1)
ChangeUserIdToUuid(shape)       == From(1, shape, 2)
ChangeIdToUuidAndAddType(shape) == From(2, shape, 3)
CreateSong(shape)               == From(0, shape, 1)
AddTrgmIndexToSongTitle(shape)  == From(1, shape, 2)
IndexSong(shape)                == From(2, shape, 3)

\* createSong also drops the tables, the journals and the schemas of the others.
DropsOthers == Applied("sayho-bot") = 0

\* createUser, createNotification and createSong drop their schema, which holds the
\* journal, without cascade.
CreateUserDown(shape)         == Refused
CreateNotificationDown(shape) == Refused
CreateSongDown(shape)         == Refused

ChangeUserIdToUuidDown(shape) == From(2, shape, 1)

\* Alters a column to the type serial, which is no type.
ChangeIdToUuidAndAddTypeDown(shape) == Refused

AddTrgmIndexToSongTitleDown(shape) == From(2, shape, 1)
IndexSongDown(shape)               == From(3, shape, 2)

-----------------------------------------------------------------------------

\* What is pending is run in the order of the files' names.
UpShape(s, shape) ==
    CASE s = "auth" -> CreateUser(shape)
      [] s = "notification" /\ Applied(s) = 0 ->
           ChangeIdToUuidAndAddType(ChangeUserIdToUuid(CreateNotification(shape)))
      [] s = "notification" /\ Applied(s) = 1 ->
           ChangeIdToUuidAndAddType(ChangeUserIdToUuid(shape))
      [] s = "notification" /\ Applied(s) = 2 -> ChangeIdToUuidAndAddType(shape)
      [] s = "sayho-bot" /\ Applied(s) = 0 ->
           IndexSong(AddTrgmIndexToSongTitle(CreateSong(shape)))
      [] s = "sayho-bot" /\ Applied(s) = 1 -> IndexSong(AddTrgmIndexToSongTitle(shape))
      [] s = "sayho-bot" /\ Applied(s) = 2 -> IndexSong(shape)

DownShape(s, shape) ==
    CASE s = "auth" -> CreateUserDown(shape)
      [] s = "notification" /\ Applied(s) = 1 -> CreateNotificationDown(shape)
      [] s = "notification" /\ Applied(s) = 2 -> ChangeUserIdToUuidDown(shape)
      [] s = "notification" /\ Applied(s) = 3 -> ChangeIdToUuidAndAddTypeDown(shape)
      [] s = "sayho-bot" /\ Applied(s) = 1 -> CreateSongDown(shape)
      [] s = "sayho-bot" /\ Applied(s) = 2 -> AddTrgmIndexToSongTitleDown(shape)
      [] s = "sayho-bot" /\ Applied(s) = 3 -> IndexSongDown(shape)

Committed(s) ==
    /\ Applied(s) < Last[s]
    /\ UpShape(s, table[s]) # Refused
    /\ LET dropped(t) == s = "sayho-bot" /\ DropsOthers /\ t # s
       IN  /\ table' = [t \in Service |-> IF t = s THEN UpShape(s, table[s])
                                          ELSE IF dropped(t) THEN 0 ELSE table[t]]
           /\ journal' = [t \in Service |-> IF t = s THEN Last[s]
                                            ELSE IF dropped(t) THEN NoJournal ELSE journal[t]]

\* migration:up, which may have nothing to do
Up(s) == Committed(s) \/ (Applied(s) = Last[s] /\ UNCHANGED <<table, journal>>)

\* Rolled back, after the journal was made, or the database was not reached.
UpFails(s) ==
    /\ \/ UNCHANGED journal
       \/ journal' = [journal EXCEPT ![s] = Applied(s)]
    /\ UNCHANGED table

\* migration:down, of the migration that was applied last
Down(s) ==
    /\ Applied(s) > 0
    /\ DownShape(s, table[s]) # Refused
    /\ table' = [table EXCEPT ![s] = DownShape(s, @)]
    /\ journal' = [journal EXCEPT ![s] = @ - 1]

-----------------------------------------------------------------------------
(* The commands of package.json, one at a time *)

MigrationUp(s) == (Up(s) \/ UpFails(s)) /\ upAll' = "idle"

MigrationDown(s) == Down(s) /\ upAll' = "idle"

After(s) ==
    CASE s = "auth" -> "notification"
      [] s = "notification" -> "sayho-bot"
      [] s = "sayho-bot" -> "done"

\* migration:up:all: auth && notification && sayho-bot
StartUpAll == upAll' = "auth" /\ UNCHANGED <<table, journal>>

UpAllStep ==
    /\ upAll \in Service
    /\ \/ Up(upAll) /\ upAll' = After(upAll)
       \/ UpFails(upAll) /\ upAll' = "idle"

Next ==
    \/ UpAllStep
    \/ /\ upAll \notin Service
       /\ StartUpAll \/ \E s \in Service : MigrationUp(s) \/ MigrationDown(s)

Spec == Init /\ [][Next]_vars

-----------------------------------------------------------------------------
(* What the documentation says and the code does not do *)

UpToDate(s) == table[s] = Last[s] /\ journal[s] = Last[s]

\* README.md: migration:up:all runs the migrations of "all services at once", so
\* every service finds its table when it ended without an error.
UpAllBuildsEverySchema == upAll = "done" => \A s \in Service : UpToDate(s)

=============================================================================
