--------------------------- MODULE AccountsProofs ---------------------------
(***************************************************************************)
(* Registration, its event and its welcome, for any calls, e-mails and     *)
(* bounds; and the table of notifications, for any users and page size.    *)
(***************************************************************************)
EXTENDS Accounts, FiniteSetTheorems, SequenceTheorems, WellFoundedInduction, TLAPS

-----------------------------------------------------------------------------
(* Registration *)

\* What RegisterCreates does to the variables of auth.
Creates(c) == Becomes(c, "hashing", "flushing") /\ UNCHANGED users

\* What auth does in a step of the system: one of its operations, or nothing.
AuthStep ==
    \/ \E c \in Register : Lookup(c) \/ Creates(c) \/ Commit(c) \/ FlushFails(c)
    \/ CallsFail
    \/ UNCHANGED authVars

\* Every step of the system is one of auth.
LEMMA NextAuth == [Next]_accountVars => AuthStep
<1>1. ASSUME NEW c \in Register, RegisterLooksUp(c) \/ RegisterCreates(c) \/ RegisterEnds(c)
      PROVE  AuthStep
  <2>1. RegisterLooksUp(c) => Lookup(c)
    BY DEF RegisterLooksUp
  <2>2. RegisterCreates(c) => Creates(c)
    BY DEF RegisterCreates, Creates
  <2>3. RegisterEnds(c) => Commit(c) \/ FlushFails(c)
    BY DEF RegisterEnds
  <2> QED
    BY <1>1, <2>1, <2>2, <2>3 DEF AuthStep
<1>2. AuthCrash => AuthStep
  BY DEF AuthCrash, AuthStep
<1>3. \/ \E e \in Event : Produce(e)
      \/ HandleUserCreated \/ Consume \/ AutoCommit \/ NotificationCrash
      \/ UNCHANGED accountVars
      => UNCHANGED authVars
  BY DEF Produce, HandleUserCreated, Consume, AutoCommit, NotificationCrash, accountVars
<1> QED
  BY <1>1, <1>2, <1>3 DEF Next, AuthStep

LEMMA AuthStepType == AuthTypeOK /\ AuthStep => AuthTypeOK'
<1> SUFFICES ASSUME AuthTypeOK, AuthStep PROVE AuthTypeOK'
  OBVIOUS
<1> USE DEF AuthTypeOK, CallState
<1>1. ASSUME NEW c \in Register, Lookup(c) \/ Creates(c)
      PROVE  AuthTypeOK'
  BY <1>1 DEF Lookup, Creates, Becomes
<1>2. ASSUME NEW c \in Register, Commit(c) \/ FlushFails(c) PROVE AuthTypeOK'
  BY <1>2 DEF Commit, FlushFails, Becomes
<1>3. CASE CallsFail
  BY <1>3 DEF CallsFail
<1>4. CASE UNCHANGED authVars
  BY <1>4 DEF authVars
<1> QED
  BY <1>1, <1>2, <1>3, <1>4 DEF AuthStep

LEMMA AuthType == Spec => []AuthTypeOK
<1>1. Init => AuthTypeOK
  BY DEF Init, AuthInit, AuthTypeOK, CallState
<1> QED
  BY <1>1, AuthStepType, NextAuth, PTL DEF Spec

(* The unique constraint decides what the look-up cannot: of two calls that    *)
(* both found the e-mail free, one is rolled back.                             *)
THEOREM AccountsUnique == Spec => []OneAccountPerEmail
<1>1. Init => OneAccountPerEmail
  BY DEF Init, AuthInit, OneAccountPerEmail
<1>2. AuthTypeOK /\ OneAccountPerEmail /\ AuthStep => OneAccountPerEmail'
  BY DEF AuthTypeOK, OneAccountPerEmail, AuthStep, Lookup, Creates, Becomes, Commit, FlushFails,
         CallsFail, Taken, authVars
<1> QED
  BY <1>1, <1>2, AuthType, NextAuth, PTL DEF Spec

-----------------------------------------------------------------------------
(* Types *)

KafkaStep ==
    \/ UNCHANGED kafkaVars
    \/ \E e \in Event : Emit(e) /\ UNCHANGED <<topic, group>>
    \/ \E e \in Event : Appended(e) \/ Answered(e) \/ EmitFails(e)
    \/ ProducerCrash /\ UNCHANGED <<topic, group>>
    \/ Handled \/ Subscribe \/ Deliver \/ Resolved \/ HandlerFails
    \/ CommitOffset \/ ConsumerCrash

LEMMA NextKafka == [Next]_accountVars => KafkaStep
BY AccountsAssumption
   DEF Next, RegisterLooksUp, RegisterCreates, RegisterEnds, Produce, AuthCrash,
       HandleUserCreated, Consume, AutoCommit, NotificationCrash, accountVars,
       kafkaVars, group, KafkaStep

LEMMA KafkaStepType == KafkaTypeOK /\ KafkaStep => KafkaTypeOK'
<1> SUFFICES ASSUME KafkaTypeOK, KafkaStep PROVE KafkaTypeOK'
  OBVIOUS
<1> USE KafkaAssumption DEF KafkaTypeOK, Messages, None, producer, group
<1>1. CASE UNCHANGED kafkaVars
  BY <1>1 DEF kafkaVars
<1>2. ASSUME NEW e \in Event, Emit(e) /\ UNCHANGED <<topic, group>> PROVE KafkaTypeOK'
  BY <1>2 DEF Emit
<1>3. ASSUME NEW e \in Event, Appended(e) PROVE KafkaTypeOK'
  BY <1>3 DEF Appended
<1>4. ASSUME NEW e \in Event, Answered(e) \/ EmitFails(e) PROVE KafkaTypeOK'
  BY <1>4 DEF Answered, EmitFails
<1>5. CASE ProducerCrash /\ UNCHANGED <<topic, group>>
  BY <1>5 DEF ProducerCrash
<1>6. CASE Subscribe
  <2>1. Start \in 0..Len(topic) /\ (offset # None => offset <= Start)
    BY DEF Start
  <2>2. missed' \subseteq 1..Len(topic)
    <3>1. missed' = missed \cup (IF offset = None THEN (position + 1)..Len(topic) ELSE {})
      BY <1>6 DEF Subscribe
    <3>2. (position + 1)..Len(topic) \subseteq 1..Len(topic)
      OBVIOUS
    <3> QED
      BY <3>1, <3>2
  <2> QED
    BY <1>6, <2>1, <2>2 DEF Subscribe
<1>7. CASE Handled \/ Deliver
  BY <1>7 DEF Handled, Deliver
<1>11. CASE Resolved
  <2>1. position' = position + 1 /\ position' \in 0..Len(topic)
    BY <1>11 DEF Resolved
  <2> QED
    BY <1>11, <2>1 DEF Resolved
<1>8. CASE HandlerFails
  BY <1>8 DEF HandlerFails
<1>9. CASE CommitOffset
  BY <1>9 DEF CommitOffset
<1>10. CASE ConsumerCrash
  BY <1>10 DEF ConsumerCrash
<1> QED
  BY <1>1, <1>2, <1>3, <1>4, <1>5, <1>6, <1>7, <1>8, <1>9, <1>10,
     <1>11 DEF KafkaStep

\* A new row keeps the rows there are.
LEMMA InsertType ==
  ASSUME NotificationTypeOK, NEW u \in User, NEW source \in Nat, Insert(u, source)
  PROVE  NotificationTypeOK'
BY DEF NotificationTypeOK, Insert, Rows, Row, NoRow

LEMMA NotificationStutter == NotificationTypeOK /\ UNCHANGED notificationVars => NotificationTypeOK'
BY DEF NotificationTypeOK, notificationVars, Rows

LEMMA NotificationInitType == NotificationInit => NotificationTypeOK
BY UserAssumption DEF NotificationInit, NotificationTypeOK, Rows, NoRow

\* What notification does in a step of the system.
LEMMA NextNotification ==
  [Next]_accountVars => HandleUserCreated \/ UNCHANGED notificationVars
BY DEF Next, RegisterLooksUp, RegisterCreates, RegisterEnds, Produce, AuthCrash,
       HandleUserCreated, Consume, AutoCommit, NotificationCrash, accountVars

(* Types, among them: a call that was told its id has its row, and the running *)
(* consumer is never behind the committed offset.                              *)
THEOREM AccountsType == Spec => []TypeOK
<1>1. Init => TypeOK
  <2>1. AuthInit => AuthTypeOK
    BY DEF AuthInit, AuthTypeOK, CallState
  <2>2. KafkaInit => KafkaTypeOK
    BY KafkaAssumption DEF KafkaInit, KafkaTypeOK, Messages, None
  <2> QED
    BY <2>1, <2>2, NotificationInitType DEF Init, TypeOK
<1>2. TypeOK /\ [Next]_accountVars => TypeOK'
  <2> SUFFICES ASSUME TypeOK, [Next]_accountVars PROVE TypeOK'
    OBVIOUS
  <2>1. AuthTypeOK' /\ KafkaTypeOK'
    BY NextAuth, NextKafka, AuthStepType, KafkaStepType DEF TypeOK
  <2>2. CASE HandleUserCreated
    <3>1. topic[position + 1] \in User /\ position + 1 \in Nat
      BY <2>2, AccountsAssumption DEF TypeOK, KafkaTypeOK, HandleUserCreated, Handled
    <3> QED
      BY <2>1, <2>2, <3>1, InsertType DEF TypeOK, HandleUserCreated
  <2>3. CASE UNCHANGED notificationVars
    BY <2>1, <2>3, NotificationStutter DEF TypeOK
  <2> QED
    BY <2>2, <2>3, NextNotification
<1> QED
  BY <1>1, <1>2, PTL DEF Spec

-----------------------------------------------------------------------------
(* Phantoms *)

\* The call was past its look-up when it emitted, and stays so.
Emitted(c) == call[c] \in {"flushing", "registered", "failed"}

\* An event, in the client, in the topic or as a row, is of a call that emitted it.
EventsAreEmitted ==
    /\ \A e \in pending : Emitted(e)
    /\ \A i \in Messages : Emitted(topic[i])
    /\ \A r \in Rows : Emitted(table[r].user)

LEMMA EmittedStays ==
  ASSUME AuthTypeOK, AuthStep, NEW c \in Register, Emitted(c)
  PROVE  Emitted(c)'
BY DEF AuthTypeOK, AuthStep, Lookup, Creates, Commit, FlushFails, Becomes, CallsFail,
       authVars, Emitted

\* An event goes from a call to the client, from there to the topic, and from
\* there to the table.
LEMMA EventFlow ==
  ASSUME TypeOK, [Next]_accountVars
  PROVE  /\ \A e \in pending' : e \in pending \/ Emitted(e)'
         /\ \A i \in Messages' : (i \in Messages /\ topic'[i] = topic[i]) \/ topic'[i] \in pending
         /\ \A r \in Rows' : \/ r \in Rows /\ table'[r] = table[r]
                             \/ \E i \in Messages : table'[r].user = topic[i]
<1> USE DEF TypeOK, KafkaTypeOK, NotificationTypeOK, Messages, Rows
<1>1. ASSUME NEW c \in Register, RegisterCreates(c) PROVE Emitted(c)'
  BY <1>1 DEF RegisterCreates, Becomes, AuthTypeOK, Emitted
<1>2. \A e \in pending' : e \in pending \/ Emitted(e)'
  BY <1>1, AccountsAssumption
     DEF Next, RegisterLooksUp, RegisterCreates, RegisterEnds, Emit, Produce, Appended,
         Answered, EmitFails, AuthCrash, ProducerCrash, HandleUserCreated, Handled, Consume,
         Subscribe, Deliver, Resolved, HandlerFails, AutoCommit, CommitOffset,
         NotificationCrash, ConsumerCrash, accountVars, kafkaVars, producer
<1>3. (\E e \in pending : topic' = Append(topic, e)) \/ topic' = topic
  BY AccountsAssumption
     DEF Next, RegisterLooksUp, RegisterCreates, RegisterEnds, Produce, Appended,
         Answered, EmitFails, AuthCrash, HandleUserCreated, Handled, Consume,
         Subscribe, Deliver, Resolved, HandlerFails, AutoCommit, CommitOffset,
         NotificationCrash, ConsumerCrash, accountVars, kafkaVars, producer
<1>4. \A i \in Messages' : (i \in Messages /\ topic'[i] = topic[i]) \/ topic'[i] \in pending
  BY <1>3
<1>5. CASE HandleUserCreated
  <2>1. position + 1 \in Messages
    BY <1>5 DEF HandleUserCreated, Handled
  <2>2. \A r \in Rows' : (r \in Rows /\ table'[r] = table[r]) \/ table'[r].user = topic[position + 1]
    BY <1>5 DEF HandleUserCreated, Insert
  <2> QED
    BY <1>2, <1>4, <2>1, <2>2
<1>6. CASE UNCHANGED notificationVars
  BY <1>2, <1>4, <1>6 DEF notificationVars
<1> QED
  BY <1>5, <1>6, NextNotification

LEMMA EventsInvariant == Spec => []EventsAreEmitted
<1>1. Init => EventsAreEmitted
  BY DEF Init, KafkaInit, NotificationInit, EventsAreEmitted, Messages, Rows
<1>2. TypeOK /\ EventsAreEmitted /\ [Next]_accountVars => EventsAreEmitted'
  <2> SUFFICES ASSUME TypeOK, EventsAreEmitted, [Next]_accountVars
               PROVE  EventsAreEmitted'
    OBVIOUS
  <2>1. \A c \in Register : Emitted(c) => Emitted(c)'
    BY EmittedStays, NextAuth DEF TypeOK
  <2>2. /\ pending \subseteq Register
        /\ \A i \in Messages : topic[i] \in Register
        /\ \A r \in Rows : table[r].user \in Register
    <3>1. pending \subseteq Register
      BY AccountsAssumption DEF TypeOK, KafkaTypeOK
    <3>2. \A i \in Messages : topic[i] \in Register
      BY AccountsAssumption DEF TypeOK, KafkaTypeOK, Messages
    <3>3. \A r \in Rows : table[r] \in Row
      BY DEF TypeOK, NotificationTypeOK, Rows
    <3> QED
      BY <3>1, <3>2, <3>3, AccountsAssumption DEF Row
  <2> QED
    BY <2>1, <2>2, EventFlow DEF EventsAreEmitted
<1> QED
  BY <1>1, <1>2, AccountsType, PTL DEF Spec

(* Only a call that was past the look-up leaves a welcome for nobody.          *)
THEOREM AccountsPhantom == Spec => []PhantomOnlyAfterRollback
<1>1. TypeOK /\ EventsAreEmitted => PhantomOnlyAfterRollback
  <2> SUFFICES ASSUME TypeOK, EventsAreEmitted, NEW r \in Rows, table[r].user \notin users
               PROVE  call[table[r].user] \in {"flushing", "failed"}
    BY DEF PhantomOnlyAfterRollback
  <2> DEFINE c == table[r].user
  <2>1. table[r] \in Row
    BY DEF TypeOK, NotificationTypeOK, Rows
  <2>2. c \in Register /\ Emitted(c)
    BY <2>1, AccountsAssumption DEF Row, EventsAreEmitted
  <2> QED
    BY <2>2 DEF TypeOK, AuthTypeOK, Emitted
<1> QED
  BY <1>1, AccountsType, EventsInvariant, PTL

-----------------------------------------------------------------------------
(* Welcomes *)

\* What the consumer is done with, committed or not, is settled; and the message
\* whose handler has committed has its row.
DoneIsSettled ==
    /\ \A i \in 1..position : Welcomed(i) \/ i \in failed \/ i \in missed
    /\ consumer = "handled" => Welcomed(position + 1)

\* Rows and logged failures stay.
LEMMA SettledStays ==
  ASSUME TypeOK, [Next]_accountVars
  PROVE  /\ \A i \in Nat : Welcomed(i) => Welcomed(i)'
         /\ failed \subseteq failed' /\ missed \subseteq missed'
<1>1. \A r \in Rows : r \in Rows' /\ table'[r] = table[r]
  BY NextNotification
     DEF HandleUserCreated, Insert, notificationVars, TypeOK, NotificationTypeOK, Rows
<1>2. failed \subseteq failed' /\ missed \subseteq missed'
  BY NextKafka
     DEF KafkaStep, Emit, Appended, Answered, EmitFails, ProducerCrash, Handled, Subscribe,
         Deliver, Resolved, HandlerFails, CommitOffset, ConsumerCrash, group, kafkaVars
<1> QED
  BY <1>1, <1>2 DEF Welcomed

\* The part of a step that concerns the group.
GroupStep ==
    \/ UNCHANGED <<consumer, position, offset, restarts>>
    \/ HandleUserCreated \/ Subscribe \/ Deliver \/ Resolved \/ HandlerFails
    \/ CommitOffset \/ ConsumerCrash

LEMMA NextGroup == [Next]_accountVars => GroupStep
BY DEF Next, RegisterLooksUp, RegisterCreates, RegisterEnds, Produce, Appended, Answered,
       EmitFails, AuthCrash, Consume, AutoCommit, NotificationCrash, accountVars,
       kafkaVars, group, GroupStep

LEMMA SettledStep == TypeOK /\ DoneIsSettled /\ [Next]_accountVars => DoneIsSettled'
<1> SUFFICES ASSUME TypeOK, DoneIsSettled, [Next]_accountVars PROVE DoneIsSettled'
  OBVIOUS
<1> DEFINE Settled(i) == Welcomed(i) \/ i \in failed \/ i \in missed
<1>1. position \in Nat /\ \A i \in Nat : Settled(i) => Settled(i)'
  BY SettledStays DEF TypeOK, KafkaTypeOK
<1>2. \A i \in 1..position : Settled(i)'
  BY <1>1 DEF DoneIsSettled
<1>3. CASE UNCHANGED <<consumer, position, offset, restarts>> \/ Deliver \/ CommitOffset \/ ConsumerCrash
  <2>1. position' = position /\ (consumer' = "handled" => consumer = "handled")
    BY <1>3 DEF Deliver, CommitOffset, ConsumerCrash
  <2> QED
    BY <1>1, <1>2, <2>1, SettledStays DEF DoneIsSettled
<1>4. CASE HandleUserCreated
  <2>1. position' = position
    BY <1>4 DEF HandleUserCreated, Handled
  <2>2. Len(table) + 1 \in Rows' /\ table'[Len(table) + 1].source = position + 1
    BY <1>4 DEF HandleUserCreated, Insert, TypeOK, NotificationTypeOK, Rows
  <2>3. Welcomed(position + 1)'
    BY <2>1, <2>2 DEF Welcomed
  <2> QED
    BY <1>2, <2>1, <2>3 DEF DoneIsSettled
<1>5. CASE Subscribe
  <2>1. position' = Start /\ consumer' = "idle"
    BY <1>5 DEF Subscribe
  <2>2. \A i \in 1..Start : i \in 1..position \/ i \in missed'
    BY <1>5 DEF Subscribe, Start, TypeOK, KafkaTypeOK
  <2> QED
    BY <1>2, <2>1, <2>2 DEF DoneIsSettled
<1>6. CASE Resolved
  <2>1. position' = position + 1 /\ consumer' = "idle" /\ consumer = "handled"
    BY <1>6 DEF Resolved
  <2>2. Welcomed(position + 1) /\ position + 1 \in Nat
    BY <1>1, <2>1 DEF DoneIsSettled
  <2>3. \A i \in Nat : i = position + 1 => Settled(i)'
    BY <1>1, <2>2
  <2>4. \A i \in 1..(position + 1) : i \in 1..position \/ i = position + 1
    BY <1>1
  <2>5. \A i \in 1..position' : Settled(i)'
    BY <1>2, <2>1, <2>3, <2>4
  <2> QED
    BY <2>1, <2>5 DEF DoneIsSettled
<1>7. CASE HandlerFails
  <2>1. /\ position' \in {position, position + 1} /\ consumer' = "idle"
        /\ position + 1 \in failed'
    BY <1>7 DEF HandlerFails
  <2>2. \A i \in 1..(position + 1) : i \in 1..position \/ i = position + 1
    BY <1>1
  <2> QED
    BY <1>2, <2>1, <2>2 DEF DoneIsSettled
<1> QED
  BY <1>3, <1>4, <1>5, <1>6, <1>7, NextGroup DEF GroupStep

(* However often the consumer starts again, no message it was to welcome is    *)
(* skipped: the committed offset never passes one that is not settled.         *)
THEOREM AccountsNoWelcomeLost == Spec => []NoWelcomeLost
<1>1. Init => DoneIsSettled
  BY DEF Init, KafkaInit, DoneIsSettled
<1>2. Spec => []DoneIsSettled
  BY <1>1, SettledStep, AccountsType, PTL DEF Spec
<1>3. TypeOK /\ DoneIsSettled => NoWelcomeLost
  BY DEF TypeOK, KafkaTypeOK, DoneIsSettled, NoWelcomeLost
<1> QED
  BY <1>2, <1>3, AccountsType, PTL

-----------------------------------------------------------------------------
(* Copies *)

Copies(i) == {r \in Rows : table[r].source = i}

\* The consumer that is running has handled the message.
HandledHere(i) ==
    /\ consumer # "down"
    /\ i <= position \/ (consumer = "handled" /\ i = position + 1)

\* A message has at most one row for each restart, and one for the running
\* consumer when that has handled it.
CopiesBounded ==
    \A i \in Nat : Cardinality(Copies(i)) <= restarts + (IF HandledHere(i) THEN 1 ELSE 0)

\* The rows are finite, and so are those of a message.
LEMMA CopiesFinite ==
  ASSUME NotificationTypeOK, NEW i
  PROVE  IsFiniteSet(Copies(i)) /\ Cardinality(Copies(i)) \in Nat
<1>1. IsFiniteSet(Rows)
  BY FS_Interval DEF NotificationTypeOK, Rows
<1> QED
  BY <1>1, FS_Subset, FS_CardinalityType DEF Copies

\* What the handler adds to the copies of a message.
LEMMA HandledCopies ==
  ASSUME TypeOK, HandleUserCreated, NEW i \in Nat
  PROVE  Cardinality(Copies(i)') =
           Cardinality(Copies(i)) + (IF i = position + 1 THEN 1 ELSE 0)
<1>1. /\ Len(table) \in Nat /\ Rows' = Rows \cup {Len(table) + 1}
      /\ \A r \in Rows : table'[r] = table[r]
      /\ table'[Len(table) + 1].source = position + 1
  BY DEF HandleUserCreated, Insert, TypeOK, NotificationTypeOK, Rows
<1>2. CASE i = position + 1
  <2>1. Copies(i)' = Copies(i) \cup {Len(table) + 1} /\ Len(table) + 1 \notin Copies(i)
    BY <1>1, <1>2 DEF Copies, Rows
  <2> QED
    BY <1>2, <2>1, CopiesFinite, FS_AddElement DEF TypeOK
<1>3. CASE i # position + 1
  <2>1. Copies(i)' = Copies(i)
    BY <1>1, <1>3 DEF Copies, Rows
  <2> QED
    BY <1>3, <2>1, CopiesFinite DEF TypeOK
<1> QED
  BY <1>2, <1>3

LEMMA CopiesStep == TypeOK /\ CopiesBounded /\ [Next]_accountVars => CopiesBounded'
<1> SUFFICES ASSUME TypeOK, CopiesBounded, [Next]_accountVars, NEW i \in Nat
             PROVE  Cardinality(Copies(i)') <= restarts' + (IF HandledHere(i)' THEN 1 ELSE 0)
  BY DEF CopiesBounded
<1>1. /\ position \in Nat /\ restarts \in Nat /\ Cardinality(Copies(i)) \in Nat
      /\ Cardinality(Copies(i)) <= restarts + (IF HandledHere(i) THEN 1 ELSE 0)
  BY CopiesFinite DEF TypeOK, KafkaTypeOK, CopiesBounded
<1>2. CASE HandleUserCreated
  <2>1. HandledHere(i)' <=> HandledHere(i) \/ i = position + 1
    BY <1>1, <1>2 DEF HandleUserCreated, Handled, HandledHere
  <2>2. i = position + 1 => ~ HandledHere(i)
    BY <1>1, <1>2 DEF HandleUserCreated, Handled, HandledHere
  <2>3. restarts' = restarts
    BY <1>2 DEF HandleUserCreated, Handled
  <2> QED
    BY <1>1, <1>2, <2>1, <2>2, <2>3, HandledCopies
<1>3. CASE ~ HandleUserCreated
  <2>1. Copies(i)' = Copies(i)
    BY <1>3, NextNotification DEF notificationVars, Copies, Rows
  <2>2. CASE UNCHANGED <<consumer, position, offset, restarts>> \/ Deliver \/ CommitOffset
    <3>1. restarts' = restarts /\ (HandledHere(i) => HandledHere(i)')
      BY <2>2 DEF Deliver, CommitOffset, HandledHere
    <3> QED
      BY <1>1, <2>1, <3>1
  <2>3. CASE Subscribe
    <3>1. ~ HandledHere(i) /\ restarts' = restarts
      BY <2>3 DEF Subscribe, HandledHere
    <3> QED
      BY <1>1, <2>1, <3>1
  <2>4. CASE Resolved
    <3>1. restarts' = restarts /\ (HandledHere(i) => HandledHere(i)')
      BY <1>1, <2>4 DEF Resolved, HandledHere
    <3> QED
      BY <1>1, <2>1, <3>1
  <2>5. CASE HandlerFails
    <3>1. \/ restarts' = restarts /\ (HandledHere(i) => HandledHere(i)')
          \/ restarts' = restarts + 1
      BY <1>1, <2>5 DEF HandlerFails, HandledHere
    <3> QED
      BY <1>1, <2>1, <3>1
  <2>6. CASE ConsumerCrash
    <3>1. restarts' = restarts + 1
      BY <2>6 DEF ConsumerCrash
    <3> QED
      BY <1>1, <2>1, <3>1
  <2> QED
    BY <1>3, <2>2, <2>3, <2>4, <2>5, <2>6, NextGroup DEF GroupStep
<1> QED
  BY <1>2, <1>3

(* A message makes one notification, and one more for each restart at most:    *)
(* the position and the offset are all that keeps a user from a second welcome. *)
THEOREM AccountsCopies == Spec => []CopiesAreRedeliveries
<1>1. Init => CopiesBounded
  <2> SUFFICES ASSUME Init, NEW i \in Nat
               PROVE  Cardinality(Copies(i)) <= restarts + (IF HandledHere(i) THEN 1 ELSE 0)
    BY DEF CopiesBounded
  <2>1. Copies(i) = {} /\ restarts = 0
    BY DEF Init, KafkaInit, NotificationInit, Copies, Rows
  <2> QED
    BY <2>1, FS_EmptySet
<1>2. Spec => []CopiesBounded
  BY <1>1, CopiesStep, AccountsType, PTL DEF Spec
<1>3. TypeOK /\ CopiesBounded => CopiesAreRedeliveries
  <2> SUFFICES ASSUME TypeOK, CopiesBounded, NEW i \in Messages
               PROVE  Cardinality(Copies(i)) <= 1 + restarts
    BY DEF CopiesAreRedeliveries, Copies
  <2>1. restarts \in Nat /\ i \in Nat /\ Cardinality(Copies(i)) \in Nat
    BY CopiesFinite DEF TypeOK, KafkaTypeOK, Messages
  <2> QED
    BY <2>1 DEF CopiesBounded
<1> QED
  BY <1>2, <1>3, AccountsType, PTL

-----------------------------------------------------------------------------
(* The table of notifications *)

\* The operations of NotificationNext, by what they do.
NotificationStep ==
    \/ \E u \in User : SendNotification(u)
    \/ \E ids \in SUBSET Rows : MarkAsRead(ids)
    \/ \E r \in Remove, i \in Rows : RemoveFinds(r, i)
    \/ \E r \in Remove : RemoveFlushes(r)
    \/ \E u \in User, w \in BOOLEAN, n \in Nat : GetNotifications(u, w, n)
    \/ UNCHANGED notificationVars

LEMMA NextNotificationStep == [NotificationNext]_notificationVars => NotificationStep
<1> SUFFICES ASSUME NotificationNext PROVE NotificationStep
  BY DEF NotificationStep
<1>1. CASE \E u \in User : SendNotification(u)
  BY <1>1 DEF NotificationStep
<1>2. CASE \E ids \in SUBSET Rows : MarkAsRead(ids)
  BY <1>2 DEF NotificationStep
<1>3. CASE \E r \in Remove : DeleteNotification(r)
  BY <1>3 DEF DeleteNotification, NotificationStep
<1>4. CASE \E u \in User, w \in BOOLEAN, n \in 0..(MaxRows + 1) : GetNotifications(u, w, n)
  <2>1. PICK u \in User, w \in BOOLEAN, n \in 0..(MaxRows + 1) : GetNotifications(u, w, n)
    BY <1>4
  <2>2. n \in Nat
    OBVIOUS
  <2> QED
    BY <2>1, <2>2 DEF NotificationStep
<1> QED
  BY <1>1, <1>2, <1>3, <1>4 DEF NotificationNext

LEMMA TableFacts ==
  ASSUME NotificationTypeOK
  PROVE  /\ Len(table) \in Nat /\ Rows = 1..Len(table) /\ DOMAIN table = Rows
         /\ table \in [Rows -> Row]
         /\ IsFiniteSet(Rows)
<1>1. Len(table) \in Nat /\ Rows = 1..Len(table) /\ table \in [Rows -> Row]
  BY LenProperties DEF NotificationTypeOK, Rows
<1>2. IsFiniteSet(Rows)
  BY <1>1, FS_Interval
<1> QED
  BY <1>1, <1>2

\* An update of the rows in place.
LEMMA RowsKept ==
  ASSUME NotificationTypeOK, NEW f \in [Rows -> Row]
  PROVE  f \in Seq(Row) /\ Len(f) = Len(table)
<1>1. Len(table) \in Nat /\ Rows = 1..Len(table)
  BY TableFacts
<1>2. f \in Seq(Row)
  BY <1>1, SeqDef
<1> QED
  BY <1>1, <1>2, LenProperties

\* MarkAsRead and RemoveFlushes, row by row.
LEMMA MarkedRows ==
  ASSUME NotificationTypeOK, NEW ids \in SUBSET Rows, MarkAsRead(ids)
  PROVE  /\ table' \in Seq(Row) /\ Len(table') = Len(table)
         /\ \A i \in Rows : /\ table'[i].user = table[i].user
                            /\ table'[i].deleted = table[i].deleted
                            /\ table'[i].read = (table[i].read \/ i \in Unread(ids))
<1>1. table \in [Rows -> Row]
  BY TableFacts
<1>2. \A i \in Rows : [table[i] EXCEPT !.read = TRUE] \in Row
  BY <1>1 DEF Row
<1>3. table' \in [Rows -> Row]
  BY <1>1, <1>2 DEF MarkAsRead
<1>4. table' \in Seq(Row) /\ Len(table') = Len(table)
  BY <1>3, RowsKept
<1>5. \A i \in Rows : /\ table'[i].user = table[i].user
                      /\ table'[i].deleted = table[i].deleted
                      /\ table'[i].read = (table[i].read \/ i \in Unread(ids))
  BY <1>1 DEF MarkAsRead, Row
<1> QED
  BY <1>4, <1>5

LEMMA FlushedRows ==
  ASSUME NotificationTypeOK, NEW r \in Remove, RemoveFlushes(r)
  PROVE  /\ removal[r] \in Rows
         /\ table' \in Seq(Row) /\ Len(table') = Len(table)
         /\ \A i \in Rows : /\ table'[i].user = table[i].user
                            /\ table'[i].read = table[i].read
                            /\ table'[i].deleted = (table[i].deleted \/ i = removal[r])
<1>1. table \in [Rows -> Row] /\ DOMAIN table = Rows
  BY TableFacts
<1>2. removal[r] \in Rows
  BY DEF RemoveFlushes, NotificationTypeOK
<1>3. table' = [i \in Rows |-> IF i = removal[r] THEN [table[i] EXCEPT !.deleted = TRUE]
                               ELSE table[i]]
  BY <1>1, <1>2 DEF RemoveFlushes
<1>4. \A i \in Rows : [table[i] EXCEPT !.deleted = TRUE] \in Row
  BY <1>1 DEF Row
<1>5. table' \in [Rows -> Row]
  BY <1>1, <1>3, <1>4
<1>6. table' \in Seq(Row) /\ Len(table') = Len(table)
  BY <1>5, RowsKept
<1>7. \A i \in Rows : /\ table'[i].user = table[i].user
                      /\ table'[i].read = table[i].read
                      /\ table'[i].deleted = (table[i].deleted \/ i = removal[r])
  BY <1>1, <1>3 DEF Row
<1> QED
  BY <1>2, <1>6, <1>7

LEMMA InsertedRows ==
  ASSUME NotificationTypeOK, NEW u \in User, SendNotification(u)
  PROVE  /\ Len(table') = Len(table) + 1
         /\ \A i \in Rows : table'[i] = table[i]
         /\ \A i \in Rows' : i \in Rows \/ (i = Len(table) + 1 /\ ~ table'[i].deleted /\ ~ table'[i].read)
BY DEF SendNotification, Insert, NotificationTypeOK, Rows

LEMMA NotificationType == NotificationSpec => []NotificationTypeOK
<1>1. NotificationTypeOK /\ NotificationStep => NotificationTypeOK'
  <2> SUFFICES ASSUME NotificationTypeOK, NotificationStep PROVE NotificationTypeOK'
    OBVIOUS
  <2>1. ASSUME NEW u \in User, SendNotification(u) PROVE NotificationTypeOK'
    BY <2>1, InsertType DEF SendNotification
  <2>2. ASSUME NEW ids \in SUBSET Rows, MarkAsRead(ids) PROVE NotificationTypeOK'
    <3>1. table' \in Seq(Row) /\ Rows' = Rows /\ Len(table') = Len(table)
      BY <2>2, MarkedRows DEF Rows
    <3>2. IsFiniteSet(Unread(ids))
      BY TableFacts, FS_Subset DEF Unread
    <3>3. Cardinality(Unread(ids)) \in Nat
      BY <3>2, FS_CardinalityType
    <3>4. reported' \in Nat /\ UNCHANGED <<removal, reader>>
      BY <2>2, <3>3 DEF MarkAsRead, NotificationTypeOK
    <3> QED
      BY <3>1, <3>4 DEF NotificationTypeOK
  <2>3. ASSUME NEW r \in Remove, NEW i \in Rows, RemoveFinds(r, i) PROVE NotificationTypeOK'
    BY <2>3 DEF RemoveFinds, NotificationTypeOK, Rows, NoRow
  <2>4. ASSUME NEW r \in Remove, RemoveFlushes(r) PROVE NotificationTypeOK'
    <3>1. table' \in Seq(Row) /\ Rows' = Rows /\ Len(table') = Len(table)
      BY <2>4, FlushedRows DEF Rows
    <3> QED
      BY <2>4, <3>1 DEF RemoveFlushes, NotificationTypeOK, NoRow
  <2>5. ASSUME NEW u \in User, NEW w \in BOOLEAN, NEW n \in Nat, GetNotifications(u, w, n) PROVE NotificationTypeOK'
    <3>1. Len(table) \in Nat /\ table' = table /\ removal' = removal /\ reported' = reported
      BY <2>5, TableFacts DEF GetNotifications
    <3>2. Page(u, w, n) \subseteq Rows /\ Listed(u, w) \subseteq Rows /\ Rows' = Rows
      BY <3>1 DEF Page, Listed, Rows
    <3>3. reader' \in [user : User, unreadOnly : BOOLEAN, page : Nat, seen : SUBSET Rows,
                       began : SUBSET Rows, size : 0..Len(table), done : BOOLEAN]
      BY <2>5, <3>1, <3>2 DEF GetNotifications, NotificationTypeOK
    <3> QED
      BY <3>1, <3>2, <3>3 DEF NotificationTypeOK
  <2>6. CASE UNCHANGED notificationVars
    BY <2>6, NotificationStutter
  <2> QED
    BY <2>1, <2>2, <2>3, <2>4, <2>5, <2>6 DEF NotificationStep
<1> QED
  BY <1>1, NotificationInitType, NextNotificationStep, PTL DEF NotificationSpec

(* Neither a late flush nor a second call takes back what was read or removed, *)
(* and each row is counted as read once.                                       *)
THEOREM NotificationReadStays == NotificationSpec => ReadStaysRead
<1> DEFINE Stays == /\ \A i \in Rows : table[i].read => table'[i].read
                    /\ \A i \in Rows : table[i].deleted => table'[i].deleted
                    /\ reported' - reported =
                         Cardinality({i \in Rows : table'[i].read /\ ~ table[i].read})
<1>1. ASSUME NotificationTypeOK, NotificationStep PROVE Stays \/ UNCHANGED notificationVars
  <2>1. reported \in Nat /\ table \in [Rows -> Row]
    BY <1>1, TableFacts DEF NotificationTypeOK
  <2>2. ASSUME reported' = reported,
               \A i \in Rows : /\ table'[i].read = table[i].read
                               /\ table[i].deleted => table'[i].deleted
        PROVE  Stays
    <3>1. {i \in Rows : table'[i].read /\ ~ table[i].read} = {}
      BY <2>2
    <3>2. Cardinality({i \in Rows : table'[i].read /\ ~ table[i].read}) = 0
      BY <3>1, FS_EmptySet
    <3>3. \A i \in Rows : table[i].read => table'[i].read
      BY <2>2
    <3> QED
      BY <2>1, <2>2, <3>2, <3>3
  <2>3. ASSUME NEW u \in User, SendNotification(u) PROVE Stays
    BY <1>1, <2>2, <2>3, InsertedRows DEF SendNotification, Insert
  <2>4. ASSUME NEW ids \in SUBSET Rows, MarkAsRead(ids) PROVE Stays
    <3>1. {i \in Rows : table'[i].read /\ ~ table[i].read} = Unread(ids)
      BY <1>1, <2>4, MarkedRows DEF Unread
    <3>2. IsFiniteSet(Unread(ids))
      BY <1>1, TableFacts, FS_Subset DEF Unread
    <3>3. Cardinality(Unread(ids)) \in Nat
      BY <3>2, FS_CardinalityType
    <3>4. reported' - reported = Cardinality(Unread(ids))
      BY <2>1, <2>4, <3>3 DEF MarkAsRead
    <3>5. \A i \in Rows : /\ table[i].read => table'[i].read
                          /\ table[i].deleted => table'[i].deleted
      BY <1>1, <2>4, MarkedRows
    <3> QED
      BY <3>1, <3>4, <3>5
  <2>5. ASSUME NEW r \in Remove, NEW i \in Rows, RemoveFinds(r, i) PROVE Stays
    BY <2>2, <2>5 DEF RemoveFinds
  <2>6. ASSUME NEW r \in Remove, RemoveFlushes(r) PROVE Stays
    BY <1>1, <2>2, <2>6, FlushedRows DEF RemoveFlushes
  <2>7. ASSUME NEW u \in User, NEW w \in BOOLEAN, NEW n \in Nat, GetNotifications(u, w, n) PROVE Stays
    BY <2>2, <2>7 DEF GetNotifications
  <2> HIDE DEF Stays
  <2> QED
    BY <1>1, <2>3, <2>4, <2>5, <2>6, <2>7 DEF NotificationStep
<1>2. NotificationTypeOK /\ [NotificationNext]_notificationVars => [Stays]_notificationVars
  BY <1>1, NextNotificationStep
<1> QED
  BY <1>2, NotificationType, PTL DEF NotificationSpec, ReadStaysRead
-----------------------------------------------------------------------------
(* Paging *)

LEMMA Smallest ==
  ASSUME NEW T \in SUBSET Nat, T # {}
  PROVE  \E x \in T : \A y \in T : x <= y
<1>1. PICK x \in T : \A y \in T : ~ (<<y, x>> \in OpToRel(<, Nat))
  BY NatLessThanWellFounded, WFMin
<1>2. \A y \in T : y < x => <<y, x>> \in OpToRel(<, Nat)
  BY DEF OpToRel
<1>3. \A y \in T : ~ (y < x)
  BY <1>1, <1>2, Zenon
<1> QED
  BY <1>3

LEMMA Largest ==
  ASSUME NEW n \in Nat, NEW T \in SUBSET (1..n), T # {}
  PROVE  \E x \in T : \A y \in T : y <= x
<1> DEFINE S == {n - x : x \in T}
<1>1. S \in SUBSET Nat /\ S # {}
  <2>1. \A x \in T : n - x \in Nat
    OBVIOUS
  <2> QED
    BY <2>1
<1>2. PICK z \in S : \A y \in S : z <= y
  BY <1>1, Smallest
<1>3. PICK x \in T : z = n - x
  BY <1>2
<1>4. \A y \in T : n - x <= n - y
  BY <1>2, <1>3
<1> QED
  BY <1>4

LEMMA NewerFinite ==
  ASSUME NotificationTypeOK, NEW u, NEW w, NEW i
  PROVE  IsFiniteSet(Newer(u, w, i)) /\ Cardinality(Newer(u, w, i)) \in Nat
<1>1. Newer(u, w, i) \subseteq Rows
  BY DEF Newer, Listed, Gone
<1>2. IsFiniteSet(Newer(u, w, i))
  BY <1>1, TableFacts, FS_Subset
<1> QED
  BY <1>2, FS_CardinalityType

\* The places in the list have no gap: there is a row at every place before one
\* that is taken.
LEMMA RankExists ==
  ASSUME NotificationTypeOK, NEW u, NEW w, NEW m \in Nat, NEW i \in Listed(u, w),
         m <= Cardinality(Newer(u, w, i))
  PROVE  \E j \in Listed(u, w) : Cardinality(Newer(u, w, j)) = m
<1> DEFINE T == {j \in Listed(u, w) : m <= Cardinality(Newer(u, w, j))}
<1>1. Len(table) \in Nat /\ T \subseteq 1..Len(table) /\ T # {}
  BY TableFacts DEF Listed
<1>2. PICK j \in T : \A k \in T : k <= j
  BY <1>1, Largest
<1>3. j \in Listed(u, w) /\ m <= Cardinality(Newer(u, w, j)) /\ Cardinality(Newer(u, w, j)) \in Nat
  BY <1>2, NewerFinite
<1>4. ASSUME Cardinality(Newer(u, w, j)) # m PROVE FALSE
  <2>1. Newer(u, w, j) # {}
    BY <1>3, <1>4, FS_EmptySet
  <2>2. Newer(u, w, j) \in SUBSET Nat
    BY TableFacts DEF Newer, Listed, Gone
  <2>3. PICK k \in Newer(u, w, j) : \A l \in Newer(u, w, j) : k <= l
    BY <2>1, <2>2, Smallest
  <2>4. k \in Listed(u, w) /\ j < k /\ j \in Nat /\ k \in Nat
    BY <1>1, <1>2, TableFacts DEF Newer, Listed, Gone
  <2>5. Newer(u, w, k) = Newer(u, w, j) \ {k}
    BY <2>3, <2>4, TableFacts DEF Newer, Listed, Gone
  <2>6. IsFiniteSet(Newer(u, w, j))
    BY NewerFinite
  <2>7. Cardinality(Newer(u, w, k)) = Cardinality(Newer(u, w, j)) - 1
    BY <2>3, <2>5, <2>6, FS_RemoveElement
  <2>8. k \in T
    BY <1>3, <1>4, <2>4, <2>7
  <2> QED
    BY <1>2, <2>4, <2>8
<1> QED
  BY <1>3, <1>4

\* The list the client began to read: the rows of its user there were, but those
\* that were gone.
BeganToRead ==
    /\ \A i \in reader.began : i <= reader.size /\ table[i].user = reader.user
    /\ \A i \in Rows : i <= reader.size /\ table[i].user = reader.user
                    /\ ~ Gone(reader.unreadOnly, i)
                         => i \in reader.began

\* What the client of a list that lost no row has not seen is behind the pages
\* it was given.
UnseenIsBehind ==
    /\ \A i \in reader.began \ reader.seen :
            reader.page * Limit <= Cardinality(Newer(reader.user, reader.unreadOnly, i))
    /\ reader.done => reader.began \subseteq reader.seen

PagingInv ==
    /\ reader.page = 0 => reader.began = {} /\ reader.seen = {} /\ ~ reader.done
    /\ reader.page > 0 => BeganToRead
    /\ reader.page > 0 /\ ~ LeftMeanwhile => UnseenIsBehind

\* A step that lets the reader be, and deletes or not: what the places of the
\* rows that are left owe it.
LEMMA TableStepPaging ==
  ASSUME NotificationTypeOK, PagingInv, reader' = reader,
         Len(table) \in Nat, Rows = 1..Len(table), Rows \subseteq Rows',
         \A i \in Rows : /\ table'[i].user = table[i].user
                         /\ table[i].deleted => table'[i].deleted
                         /\ table[i].read => table'[i].read,
         \A i \in Rows' : i \in Rows \/ i > Len(table),
         NotificationTypeOK'
  PROVE  PagingInv'
<1>1. /\ reader.size \in 0..Len(table) /\ reader.began \subseteq Rows
      /\ reader.page \in Nat
  BY DEF NotificationTypeOK
<1>2. ~ LeftMeanwhile' => ~ LeftMeanwhile
  <2> SUFFICES ASSUME NEW i \in Rows, Gone(reader.unreadOnly, i),
                      i \in reader.began \/ i > reader.size
               PROVE  LeftMeanwhile'
    BY DEF LeftMeanwhile
  <2>1. i \in Rows' /\ Gone(reader.unreadOnly, i)'
    BY DEF Gone
  <2> QED
    BY <2>1 DEF LeftMeanwhile
<1>3. BeganToRead => BeganToRead'
  <2> SUFFICES ASSUME BeganToRead PROVE BeganToRead'
    OBVIOUS
  <2>1. \A i \in reader.began : i <= reader.size /\ table'[i].user = reader.user
    BY <1>1 DEF BeganToRead
  <2>2. ASSUME NEW i \in Rows', i <= reader.size, table'[i].user = reader.user,
               ~ Gone(reader.unreadOnly, i)'
        PROVE  i \in reader.began
    <3>1. i \in Rows
      BY <1>1, <2>2
    <3>2. ~ Gone(reader.unreadOnly, i)
      BY <2>2, <3>1 DEF Gone
    <3> QED
      BY <2>2, <3>1, <3>2 DEF BeganToRead
  <2> QED
    BY <2>1, <2>2 DEF BeganToRead
<1>4. ASSUME ~ LeftMeanwhile', BeganToRead, UnseenIsBehind PROVE UnseenIsBehind'
  <2>1. ASSUME NEW i \in reader.began \ reader.seen
        PROVE  reader.page * Limit <= Cardinality(Newer(reader.user, reader.unreadOnly, i)')
    <3> DEFINE u == reader.user
               w == reader.unreadOnly
    <3>1. ASSUME NEW j \in Newer(u, w, i) PROVE j \in Newer(u, w, i)'
      <4>1. j \in Rows /\ table[j].user = u /\ ~ Gone(w, j) /\ i < j
        BY <3>1 DEF Newer, Listed
      <4>2. j \in Rows' /\ table'[j].user = u
        BY <4>1
      <4>3. j \in reader.began \/ j > reader.size
        BY <1>1, <1>4, <4>1 DEF BeganToRead
      <4>4. ~ Gone(w, j)'
        BY <1>4, <4>2, <4>3 DEF LeftMeanwhile
      <4> QED
        BY <4>1, <4>2, <4>4 DEF Newer, Listed
    <3>2. IsFiniteSet(Newer(u, w, i)') /\ Cardinality(Newer(u, w, i)') \in Nat
      <4>1. Len(table') \in Nat /\ Newer(u, w, i)' \subseteq 1..Len(table')
        BY DEF NotificationTypeOK, Newer, Listed, Rows
      <4>2. IsFiniteSet(1..Len(table'))
        BY <4>1, FS_Interval
      <4>3. IsFiniteSet(Newer(u, w, i)')
        BY <4>1, <4>2, FS_Subset
      <4> QED
        BY <4>3, FS_CardinalityType
    <3>3. Cardinality(Newer(u, w, i)) <= Cardinality(Newer(u, w, i)')
      BY <3>1, <3>2, FS_Subset
    <3>4. Cardinality(Newer(u, w, i)) \in Nat
      BY NewerFinite
    <3>5. reader.page * Limit <= Cardinality(Newer(u, w, i)) /\ reader.page * Limit \in Nat
      BY <1>1, <1>4, <2>1, LimitAssumption DEF UnseenIsBehind
    <3> QED
      BY <3>2, <3>3, <3>4, <3>5
  <2> QED
    BY <1>4, <2>1 DEF UnseenIsBehind
<1> QED
  BY <1>2, <1>3, <1>4 DEF PagingInv

\* A page takes the rows of its places, and an empty one was past the last.
LEMMA PageTakes ==
  ASSUME NotificationTypeOK, NEW u \in User, NEW w \in BOOLEAN, NEW n \in Nat, NEW q \in Nat,
         q = (IF n = 0 THEN 0 ELSE n - 1),
         NEW i \in Listed(u, w), q * Limit <= Cardinality(Newer(u, w, i))
  PROVE  /\ Page(u, w, n) # {}
         /\ i \in Page(u, w, n) \/ (q + 1) * Limit <= Cardinality(Newer(u, w, i))
<1> DEFINE skipped == q * Limit
<1>1. skipped \in Nat /\ Limit \in Nat /\ Limit > 0 /\ (q + 1) * Limit = skipped + Limit
  BY LimitAssumption
<1> HIDE DEF skipped
<1>2. Page(u, w, n) = {k \in Listed(u, w) : Cardinality(Newer(u, w, k)) \in skipped..(skipped + Limit - 1)}
  BY DEF Page, skipped
<1>3. PICK j \in Listed(u, w) : Cardinality(Newer(u, w, j)) = skipped
  BY <1>1, RankExists DEF skipped
<1>4. j \in Page(u, w, n)
  BY <1>1, <1>2, <1>3
<1>5. Cardinality(Newer(u, w, i)) \in Nat /\ skipped <= Cardinality(Newer(u, w, i))
  BY NewerFinite DEF skipped
<1> QED
  BY <1>1, <1>2, <1>4, <1>5

LEMMA GetPaging ==
  ASSUME NotificationTypeOK, PagingInv, NEW u \in User, NEW w \in BOOLEAN, NEW n \in Nat,
         GetNotifications(u, w, n)
  PROVE  PagingInv'
<1> DEFINE q == IF n = 0 THEN 0 ELSE n - 1
<1>1. /\ table' = table /\ Rows' = Rows /\ Listed(u, w)' = Listed(u, w)
      /\ \A i : Newer(u, w, i)' = Newer(u, w, i)
      /\ reader.page \in Nat
      /\ reader' = [user  |-> u,
                    unreadOnly |-> w,
                    page  |-> IF n = 0 THEN 1 ELSE n,
                    seen  |-> reader.seen \cup Page(u, w, n),
                    began |-> IF reader.page = 0 THEN Listed(u, w) ELSE reader.began,
                    size  |-> IF reader.page = 0 THEN Len(table) ELSE reader.size,
                    done  |-> Page(u, w, n) = {}]
      /\ IF reader.page = 0 THEN n \in {0, 1}
         ELSE u = reader.user /\ w = reader.unreadOnly /\ n = reader.page + 1
  BY DEF GetNotifications, Rows, Newer, Listed, Gone, NotificationTypeOK
<1>2. reader'.page = q + 1 /\ q = reader.page /\ q \in Nat
  BY <1>1
<1>3. BeganToRead'
  <2>1. CASE reader.page = 0
    BY <1>1, <2>1, TableFacts DEF BeganToRead, Listed, Gone
  <2>2. CASE reader.page # 0
    <3>1. BeganToRead /\ reader'.began = reader.began /\ reader'.size = reader.size
          /\ reader'.user = reader.user /\ reader'.unreadOnly = reader.unreadOnly
      BY <1>1, <2>2 DEF PagingInv
    <3> QED
      BY <1>1, <3>1 DEF BeganToRead, Gone
  <2> QED
    BY <2>1, <2>2
<1>4. ASSUME ~ LeftMeanwhile', NEW i \in reader'.began, i \notin reader.seen
      PROVE  i \in Listed(u, w) /\ q * Limit <= Cardinality(Newer(u, w, i))
  <2>1. CASE reader.page = 0
    <3>1. i \in Listed(u, w) /\ q = 0
      BY <1>1, <1>2, <1>4, <2>1
    <3> QED
      BY <3>1, NewerFinite, LimitAssumption
  <2>2. CASE reader.page # 0
    <3>1. reader'.began = reader.began /\ reader'.size = reader.size
          /\ u = reader.user /\ w = reader.unreadOnly
          /\ reader'.unreadOnly = reader.unreadOnly
      BY <1>1, <2>2
    <3>2. ~ LeftMeanwhile
      BY <1>1, <1>4, <3>1 DEF LeftMeanwhile, Gone
    <3>3. BeganToRead /\ UnseenIsBehind
      BY <1>1, <2>2, <3>2 DEF PagingInv
    <3>4. i \in Rows /\ table[i].user = u /\ ~ Gone(w, i)
      BY <1>4, <3>1, <3>2, <3>3 DEF NotificationTypeOK, BeganToRead, LeftMeanwhile, Gone
    <3> QED
      BY <1>2, <1>4, <3>1, <3>3, <3>4 DEF UnseenIsBehind, Listed
  <2> QED
    BY <2>1, <2>2
<1>5. ASSUME ~ LeftMeanwhile', NEW i \in reader'.began, i \notin reader'.seen
      PROVE  Page(u, w, n) # {} /\ (q + 1) * Limit <= Cardinality(Newer(u, w, i))
  <2>1. i \notin reader.seen /\ i \notin Page(u, w, n)
    BY <1>1, <1>5
  <2>2. i \in Listed(u, w) /\ q * Limit <= Cardinality(Newer(u, w, i))
    BY <1>4, <1>5, <2>1
  <2> HIDE DEF q
  <2> QED
    BY <1>2, <2>1, <2>2, PageTakes DEF q
<1>6. ~ LeftMeanwhile' => UnseenIsBehind'
  <2> SUFFICES ASSUME ~ LeftMeanwhile' PROVE UnseenIsBehind'
    OBVIOUS
  <2>1. reader'.user = u /\ reader'.unreadOnly = w /\ (reader'.done => Page(u, w, n) = {})
    BY <1>1
  <2>2. \A i : Newer(reader.user, reader.unreadOnly, i)' = Newer(u, w, i)
    BY <1>1, <2>1 DEF Newer, Listed, Gone
  <2>3. \A i \in reader'.began \ reader'.seen :
           (reader.page * Limit)' <= Cardinality(Newer(reader.user, reader.unreadOnly, i)')
    <3> HIDE DEF q
    <3> QED
      BY <1>2, <1>5, <2>2
  <2>4. reader'.done => reader'.began \subseteq reader'.seen
    BY <1>5, <2>1
  <2> QED
    BY <2>3, <2>4 DEF UnseenIsBehind
<1> QED
  BY <1>2, <1>3, <1>6 DEF PagingInv

(* A client that pages to the end of a list, of all rows or of the unread, and *)
(* of which no row left meanwhile, misses no row it began to read: what comes  *)
(* in only moves rows to later pages, and no place of the list is empty before *)
(* its last row.                                                               *)
THEOREM NotificationPages == NotificationSpec => []PagesShowAll
<1>1. NotificationInit => PagingInv
  BY DEF NotificationInit, PagingInv
<1>2. NotificationTypeOK /\ NotificationTypeOK' /\ PagingInv /\ NotificationStep => PagingInv'
  <2> SUFFICES ASSUME NotificationTypeOK, NotificationTypeOK', PagingInv, NotificationStep
               PROVE  PagingInv'
    OBVIOUS
  <2> DEFINE Grows == /\ reader' = reader /\ Rows \subseteq Rows'
                      /\ \A i \in Rows : /\ table'[i].user = table[i].user
                                         /\ table[i].deleted => table'[i].deleted
                                         /\ table[i].read => table'[i].read
                      /\ \A i \in Rows' : i \in Rows \/ i > Len(table)
  <2>1. Grows => PagingInv'
    BY TableFacts, TableStepPaging
  <2>2. ASSUME NEW u \in User, SendNotification(u) PROVE Grows
    <3>1. reader' = reader
      BY <2>2 DEF SendNotification, Insert
    <3> QED
      BY <2>2, <3>1, InsertedRows, TableFacts DEF Rows
  <2>3. ASSUME NEW ids \in SUBSET Rows, MarkAsRead(ids) PROVE Grows
    <3>1. reader' = reader
      BY <2>3 DEF MarkAsRead
    <3> QED
      BY <2>3, <3>1, MarkedRows DEF Rows
  <2>4. ASSUME NEW r \in Remove, NEW i \in Rows, RemoveFinds(r, i) PROVE Grows
    BY <2>4 DEF RemoveFinds, Rows
  <2>5. ASSUME NEW r \in Remove, RemoveFlushes(r) PROVE Grows
    <3>1. reader' = reader
      BY <2>5 DEF RemoveFlushes
    <3> QED
      BY <2>5, <3>1, FlushedRows DEF Rows
  <2>6. UNCHANGED notificationVars => Grows
    BY DEF notificationVars, Rows
  <2> HIDE DEF Grows
  <2> QED
    BY <2>1, <2>2, <2>3, <2>4, <2>5, <2>6, GetPaging DEF NotificationStep
<1>3. NotificationTypeOK /\ PagingInv => PagesShowAll
  <2>1. NotificationTypeOK => reader.page \in Nat
    BY DEF NotificationTypeOK
  <2> QED
    BY <2>1 DEF PagingInv, UnseenIsBehind, PagesShowAll
<1> QED
  BY <1>1, <1>2, <1>3, NotificationType, NextNotificationStep, PTL DEF NotificationSpec
=============================================================================
