------------------------------- MODULE Songs -------------------------------
(***************************************************************************)
(* SongService.create, which counts the plays of a song: a transaction     *)
(* that looks for a row of the URL and, when it is flushed, writes the     *)
(* count it has read plus one, or a new row.  Nothing makes a URL unique   *)
(* and nothing is locked while it is read.                                 *)
(***************************************************************************)
EXTENDS Naturals, Sequences, FiniteSetsExt

CONSTANTS Chain,     \* chains of playNext, each with one call of create at most
          Url,
          MaxPlays   \* bound: plays recorded

VARIABLES
    rows,       \* sayho.song, in the order of the inserts
    call,       \* where each call is, the song it records, and what it has read
    recorded,   \* history: the plays of each song that were committed
    overlapped  \* history: the songs a row of which had changed between a read and the
                \* write that followed it

songVars == <<rows, call, recorded, overlapped>>

NoRow == 0
NoUrl == "no url"
Idle  == [at |-> "idle", url |-> NoUrl, row |-> NoRow, count |-> 0]

RowsOf(u) == {i \in DOMAIN rows : rows[i].url = u}

SongsTypeOK ==
    /\ rows \in Seq([url : Url, count : Nat \ {0}])
    /\ call \in [Chain -> [at : {"idle", "finding", "flushing"}, url : Url \cup {NoUrl},
                            row : 0..Len(rows), count : Nat]]
    /\ \A s \in Chain :
          /\ call[s].at # "idle" => call[s].url \in Url
          /\ call[s].row # NoRow => call[s].row \in RowsOf(call[s].url)
    /\ recorded \in [Url -> Nat]
    /\ overlapped \subseteq Url

SongsInit ==
    /\ rows = <<>>
    /\ call = [s \in Chain |-> Idle]
    /\ recorded = [u \in Url |-> 0]
    /\ overlapped = {}

\* create is called.
Create(s, u) ==
    /\ call[s] = Idle
    /\ call' = [call EXCEPT ![s] = [Idle EXCEPT !.at = "finding", !.url = u]]
    /\ UNCHANGED <<rows, recorded, overlapped>>

\* findOne({ url }) is answered, with any row of the URL if there are several.
Find(s) ==
    /\ call[s].at = "finding"
    /\ \/ /\ RowsOf(call[s].url) = {}
          /\ call' = [call EXCEPT ![s].at = "flushing"]
       \/ \E i \in RowsOf(call[s].url) :
             call' = [call EXCEPT ![s].at = "flushing", ![s].row = i, ![s].count = rows[i].count]
    /\ UNCHANGED <<rows, recorded, overlapped>>

\* Mutant of Written: the row is written as a new one is.
WrittenAnew(s) ==
    IF call[s].row = NoRow
    THEN Append(rows, [url |-> call[s].url, count |-> 1])
    ELSE [rows EXCEPT ![call[s].row].count = 1]

\* repository.create, or count += 1 on the row as it was read
Written(s) ==
    IF call[s].row = NoRow
    THEN Append(rows, [url |-> call[s].url, count |-> 1])
    ELSE [rows EXCEPT ![call[s].row].count = call[s].count + 1]

Overlapped(s) == call[s].row # NoRow /\ rows[call[s].row].count # call[s].count

\* The transaction commits.
Committed(s) ==
    LET u == call[s].url
    IN  /\ MapThenSumSet(LAMBDA v : recorded[v], Url) < MaxPlays
        /\ rows' = Written(s)
        /\ recorded' = [recorded EXCEPT ![u] = @ + 1]
        /\ overlapped' = overlapped \cup (IF Overlapped(s) THEN {u} ELSE {})

Flush(s) ==
    /\ call[s].at = "flushing"
    /\ Committed(s)
    /\ call' = [call EXCEPT ![s] = Idle]

\* The database does not answer, the commit may be done: playNext catches it.
CreateFails(s) ==
    /\ \/ call[s].at # "idle" /\ UNCHANGED <<rows, recorded, overlapped>>
       \/ call[s].at = "flushing" /\ Committed(s)
    /\ call' = [call EXCEPT ![s] = Idle]

-----------------------------------------------------------------------------

\* What the rows of a song count, play by play.
Played(u) == UNION {{i} \X (1..rows[i].count) : i \in RowsOf(u)}

Plays(u) == Cardinality(Played(u))

\* The counts of a song's rows are its plays: two first plays may make two rows,
\* and plays are lost only if another of the song was written between the read and
\* the write of one.
CountsArePlays ==
    \A u \in Url : /\ Plays(u) <= recorded[u]
                   /\ u \notin overlapped => Plays(u) = recorded[u]

=============================================================================
