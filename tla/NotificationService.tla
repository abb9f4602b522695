------------------------ MODULE NotificationService ------------------------
(***************************************************************************)
(* NotificationService: the table of notifications and its operations.     *)
(* A row carries the user it is for and what it came from; its place in    *)
(* the table is its id and its age (createdAt).                            *)
(*                                                                         *)
(* create and markAsRead are one transaction of one statement.  remove     *)
(* finds the row, and its change is flushed after the method returned.     *)
(* A reader pages through the list: one call of GetNotifications per page, *)
(* newest first.                                                           *)
(***************************************************************************)
EXTENDS Naturals, Sequences, FiniteSets

CONSTANTS User,
          Remove,   \* the calls of DeleteNotification
          Limit,    \* rows of a page
          MaxRows   \* bound: rows of the table

ASSUME LimitAssumption == Limit \in Nat \ {0}

\* A list is somebody's.
ASSUME UserAssumption == User # {}

VARIABLES
    table,      \* the rows
    reported,   \* history: rows counted by the calls of MarkAsRead
    removal,    \* the row each call of remove found, or NoRow
    reader      \* the pages one client got: whose, of all rows or the unread only,
                \* how many, the rows seen, and (history) the list when it began

notificationVars == <<table, reported, removal, reader>>

NoRow == 0
Rows  == 1..Len(table)

Row   == [user : User, source : Nat, read : BOOLEAN, deleted : BOOLEAN]

NotificationTypeOK ==
    /\ table \in Seq(Row)
    /\ removal \in [Remove -> Rows \cup {NoRow}]
    /\ reader \in [user : User, unreadOnly : BOOLEAN, page : Nat, seen : SUBSET Rows,
                   began : SUBSET Rows, size : 0..Len(table), done : BOOLEAN]
    /\ reported \in Nat

NotificationInit ==
    /\ table = <<>>
    /\ reported = 0
    /\ removal = [r \in Remove |-> NoRow]
    /\ reader = [user |-> CHOOSE u \in User : TRUE, unreadOnly |-> FALSE, page |-> 0,
                 seen |-> {}, began |-> {}, size |-> 0, done |-> FALSE]

\* create(userId, title, message, type)
Insert(u, source) ==
    /\ Len(table) < MaxRows
    /\ table' = Append(table, [user |-> u, source |-> source,
                               read |-> FALSE, deleted |-> FALSE])
    /\ UNCHANGED <<reported, removal, reader>>

\* id in ids, deletedAt: null, isRead: false
Unread(ids) == {i \in ids \cap Rows : ~ table[i].deleted /\ ~ table[i].read}

\* markAsRead(ids): one update, which returns the number of rows it changed.
MarkAsRead(ids) ==
    /\ table' = [i \in Rows |-> IF i \in Unread(ids) THEN [table[i] EXCEPT !.read = TRUE]
                                ELSE table[i]]
    /\ reported' = reported + Cardinality(Unread(ids))
    /\ UNCHANGED <<removal, reader>>

\* remove(id): the row is found; without one the call ends with NOT_FOUND.
RemoveFinds(r, i) ==
    /\ removal[r] = NoRow
    /\ i \in Rows
    /\ ~ table[i].deleted
    /\ removal' = [removal EXCEPT ![r] = i]
    /\ UNCHANGED <<table, reported, reader>>

\* Mutant of RemoveFlushes: the row is written as it was found, unread.
RemoveWritesRow(r) ==
    /\ removal[r] # NoRow
    /\ table' = [table EXCEPT ![removal[r]] = [@ EXCEPT !.deleted = TRUE, !.read = FALSE]]
    /\ removal' = [removal EXCEPT ![r] = NoRow]
    /\ UNCHANGED <<reported, reader>>

\* The flush writes what the method changed, deletedAt.
RemoveFlushes(r) ==
    /\ removal[r] # NoRow
    /\ table' = [table EXCEPT ![removal[r]].deleted = TRUE]
    /\ removal' = [removal EXCEPT ![r] = NoRow]
    /\ UNCHANGED <<reported, reader>>

-----------------------------------------------------------------------------
(* findAllByUser: pages of the user's rows, or of the unread ones, newest first *)

\* Row i is on no list any more: deletedAt: null, and isRead: false if unreadOnly.
Gone(unreadOnly, i) == table[i].deleted \/ (unreadOnly /\ table[i].read)

Listed(u, unreadOnly) == {i \in Rows : table[i].user = u /\ ~ Gone(unreadOnly, i)}

\* Rows that come before row i in the list.
Newer(u, unreadOnly, i) == {j \in Listed(u, unreadOnly) : j > i}

\* Mutant of Page: the offset is page * limit.
PageOff(u, unreadOnly, page) ==
    {i \in Listed(u, unreadOnly) :
        Cardinality(Newer(u, unreadOnly, i)) \in (page * Limit)..(page * Limit + Limit - 1)}

\* offset (page - 1) * limit, where page || 1 makes page 0 the first.
Page(u, unreadOnly, page) ==
    LET offset == (IF page = 0 THEN 0 ELSE page - 1) * Limit
    IN  {i \in Listed(u, unreadOnly) :
            Cardinality(Newer(u, unreadOnly, i)) \in offset..(offset + Limit - 1)}

\* A client begins with page 0 or 1 of a list and asks on, up to the first empty page.
GetNotifications(u, unreadOnly, n) ==
    /\ ~ reader.done
    /\ IF reader.page = 0 THEN n \in {0, 1}
       ELSE /\ u = reader.user /\ unreadOnly = reader.unreadOnly
            /\ n = reader.page + 1
    /\ LET page  == Page(u, unreadOnly, n)
           first == reader.page = 0
       IN  reader' = [user  |-> u,
                      unreadOnly |-> unreadOnly,
                      page  |-> IF n = 0 THEN 1 ELSE n,
                      seen  |-> reader.seen \cup page,
                      began |-> IF first THEN Listed(u, unreadOnly) ELSE reader.began,
                      size  |-> IF first THEN Len(table) ELSE reader.size,
                      done  |-> page = {}]
    /\ UNCHANGED <<table, reported, removal>>

SendNotification(u) == Insert(u, 0)

DeleteNotification(r) == RemoveFlushes(r) \/ \E i \in Rows : RemoveFinds(r, i)

NotificationNext ==
    \/ \E u \in User : SendNotification(u)
    \/ \E ids \in SUBSET Rows : MarkAsRead(ids)
    \/ \E r \in Remove : DeleteNotification(r)
    \/ \E u \in User, unreadOnly \in BOOLEAN, n \in 0..(MaxRows + 1) :
          GetNotifications(u, unreadOnly, n)

NotificationSpec == NotificationInit /\ [][NotificationNext]_notificationVars

-----------------------------------------------------------------------------
(* Properties *)

\* A notification that was read stays read and one that was deleted stays
\* deleted: the flush of a removal that found the row before it was read does
\* not bring the unread row back.  So each is reported as read by one call.
ReadStaysRead ==
    [][/\ \A i \in Rows : table[i].read => table'[i].read
       /\ \A i \in Rows : table[i].deleted => table'[i].deleted
       /\ reported' - reported =
             Cardinality({i \in Rows : table'[i].read /\ ~ table[i].read})]_notificationVars

\* A row left the list that the client reads: deleted, or read if it lists the unread.
LeftMeanwhile ==
    \E i \in Rows : Gone(reader.unreadOnly, i) /\ (i \in reader.began \/ i > reader.size)

\* New rows push the older ones down the list, so a client that pages through it
\* may see a row twice, but it misses no row of the list it began to read unless
\* a row left that list meanwhile.  A client that lists its unread rows and marks
\* each page as read makes rows leave itself.
PagesShowAll == reader.done /\ ~ LeftMeanwhile => reader.began \subseteq reader.seen

=============================================================================
