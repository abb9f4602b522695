------------------------------ MODULE Accounts ------------------------------
(***************************************************************************)
(* Registration in the auth service, the event of the new account, and the *)
(* welcome notification the notification service creates from it.          *)
(*                                                                         *)
(* An event names the user, which is the call that created it.  A welcome  *)
(* carries the message of the topic it was created from as its source.     *)
(* What clients do to the table of notifications has a specification of    *)
(* its own, NotificationSpec.                                              *)
(***************************************************************************)
EXTENDS AuthService, KafkaTopic, NotificationService

ASSUME AccountsAssumption == Event = Register /\ User = Register

accountVars == <<authVars, kafkaVars, notificationVars>>

TypeOK == AuthTypeOK /\ KafkaTypeOK /\ NotificationTypeOK

Init == AuthInit /\ KafkaInit /\ NotificationInit

\* Mutant of RegisterLooksUp: the event is emitted before the look-up.
RegisterEmitsFirst(c) ==
    /\ Lookup(c)
    /\ Emit(c)
    /\ UNCHANGED <<topic, group, notificationVars>>

RegisterLooksUp(c) ==
    /\ Lookup(c)
    /\ UNCHANGED <<kafkaVars, notificationVars>>

\* The password is hashed: create, emit, and the method returns before its
\* transaction is flushed.
RegisterCreates(c) ==
    /\ Becomes(c, "hashing", "flushing")
    /\ Emit(c)
    /\ UNCHANGED <<users, topic, group, notificationVars>>

RegisterEnds(c) ==
    /\ Commit(c) \/ FlushFails(c)
    /\ UNCHANGED <<kafkaVars, notificationVars>>

Produce(e) ==
    /\ Appended(e) \/ Answered(e) \/ EmitFails(e)
    /\ UNCHANGED <<authVars, notificationVars>>

AuthCrash ==
    /\ CallsFail
    /\ ProducerCrash
    /\ UNCHANGED <<topic, group, notificationVars>>

\* handleUserCreated: the welcome of the user is created.
HandleUserCreated ==
    /\ Handled
    /\ Insert(topic[position + 1], position + 1)
    /\ UNCHANGED authVars

\* Mutant of Consume: a consumer that lost its process is not started again.
ConsumeOnce ==
    /\ (restarts = 0 /\ Subscribe) \/ Deliver \/ Resolved \/ HandlerFails
    /\ UNCHANGED <<authVars, notificationVars>>

Consume ==
    /\ Subscribe \/ Deliver \/ Resolved \/ HandlerFails
    /\ UNCHANGED <<authVars, notificationVars>>

AutoCommit == CommitOffset /\ UNCHANGED <<authVars, notificationVars>>

NotificationCrash == ConsumerCrash /\ UNCHANGED <<authVars, notificationVars>>

Next ==
    \/ \E c \in Register : RegisterLooksUp(c) \/ RegisterCreates(c) \/ RegisterEnds(c)
    \/ \E e \in Event : Produce(e)
    \/ AuthCrash
    \/ HandleUserCreated \/ Consume \/ AutoCommit \/ NotificationCrash

\* A hash ends, a flush ends, the client answers or gives up, and the consumer
\* runs.  Nobody has to register.
Fairness ==
    /\ \A c \in Register : WF_accountVars(RegisterCreates(c)) /\ WF_accountVars(RegisterEnds(c))
    /\ \A e \in Event : WF_accountVars(Produce(e))
    /\ WF_accountVars(HandleUserCreated)
    /\ WF_accountVars(Consume)

Spec == Init /\ [][Next]_accountVars /\ Fairness

-----------------------------------------------------------------------------
(* Properties *)

Welcomed(i) == \E r \in Rows : table[r].source = i

\* register emits before its transaction commits (the TODO in its code).  A
\* welcome whose user has no account is left by a call that is being flushed or
\* failed in its flush: never by one that found the e-mail taken.
PhantomOnlyAfterRollback ==
    \A r \in Rows : table[r].user \notin users =>
        call[table[r].user] \in {"flushing", "failed"}

\* A restart of the consumer loses no welcome: what the group committed has its
\* notification, or its handler's failure was logged, or it came before the
\* group ever committed an offset and no process was subscribed.
NoWelcomeLost ==
    offset # None => \A i \in 1..offset : Welcomed(i) \/ i \in failed \/ i \in missed

\* A message makes as many notifications as it may have been delivered, one and
\* one for each restart: handleUserCreated is not idempotent, so nothing but the
\* offset keeps a user from being welcomed again.
CopiesAreRedeliveries ==
    \A i \in Messages : Cardinality({r \in Rows : table[r].source = i}) <= 1 + restarts

\* The event of an account is answered or given up, and every message of it is
\* settled in the end: as a notification or as a logged failure.
WelcomeSettles ==
    \A c \in Register :
        c \in users ~> /\ c \notin pending
                       /\ \A i \in Messages : topic[i] = c =>
                            Welcomed(i) \/ i \in failed \/ i \in missed

=============================================================================
