---------------------------- MODULE AuthService ----------------------------
(***************************************************************************)
(* AuthService.register: a transaction that looks the e-mail up, hashes    *)
(* the password, creates the user, emits the event of the new account and  *)
(* is flushed and committed after it returned.                             *)
(*                                                                         *)
(* A call of Register is named by a constant, and so is the user it        *)
(* creates: the id is made by the call (uuid v7).  The database is the     *)
(* table auth.user with its unique constraint on the e-mail; a row is      *)
(* visible to other transactions from its commit on.                       *)
(***************************************************************************)
EXTENDS Naturals

CONSTANTS Register,   \* the calls of Register
          Email

CONSTANT email        \* the e-mail of each call

ASSUME EmailAssumption == email \in [Register -> Email]

VARIABLES
    call,   \* how far each call is
    users   \* the committed rows, by the call that made them

authVars == <<call, users>>

CallState == {"idle", "hashing", "flushing", "registered", "exists", "failed"}

\* A call that was told the user's id has its row.
AuthTypeOK ==
    /\ call \in [Register -> CallState]
    /\ users \subseteq Register
    /\ \A c \in users : call[c] \notin {"idle", "exists"}
    /\ \A c \in Register : call[c] = "registered" => c \in users

AuthInit ==
    /\ call = [c \in Register |-> "idle"]
    /\ users = {}

Becomes(c, from, to) ==
    /\ call[c] = from
    /\ call' = [call EXCEPT ![c] = to]

Taken(c) == \E u \in users : email[u] = email[c]

\* findOne({ email, deletedAt: null }): nothing in the program deletes a user.
Lookup(c) ==
    /\ Becomes(c, "idle", IF Taken(c) THEN "exists" ELSE "hashing")
    /\ UNCHANGED users

\* Mutant of Commit: the e-mail is not unique in the table.
CommitTaken(c) ==
    /\ Becomes(c, "flushing", "registered")
    /\ users' = users \cup {c}

\* The insert is accepted and the transaction commits.
Commit(c) ==
    /\ ~ Taken(c)
    /\ Becomes(c, "flushing", "registered")
    /\ users' = users \cup {c}

\* The insert breaks the constraint, or the database is lost: the transaction
\* is rolled back, or committed without an answer.
FlushFails(c) ==
    /\ Becomes(c, "flushing", "failed")
    /\ users' \in {users, IF Taken(c) THEN users ELSE users \cup {c}}

\* The process ends: the calls under way fail, whether their transaction was
\* committed or not.
CallsFail ==
    /\ call' = [c \in Register |->
                  IF call[c] \in {"hashing", "flushing"} THEN "failed" ELSE call[c]]
    /\ UNCHANGED users

-----------------------------------------------------------------------------
(* Properties *)

\* Two registrations of one e-mail may both pass the look-up of register; the
\* table keeps one of them.
OneAccountPerEmail ==
    \A c, d \in users : email[c] = email[d] => c = d

=============================================================================
