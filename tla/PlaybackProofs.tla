--------------------------- MODULE PlaybackProofs ---------------------------
(***************************************************************************)
(* The PO token, the streams made with it and the recorded plays, for any  *)
(* streams, songs and periods.                                             *)
(***************************************************************************)
EXTENDS Playback, FiniteSetTheorems, SequenceTheorems, TLAPS

-----------------------------------------------------------------------------
(* Steps *)

StreamStep(s) == CreateStream(s) \/ Retry(s) \/ Pause(s) \/ StreamSettles(s)

\* Every step of the system is one of the token's side or leaves it alone.
LEMMA NextPoToken ==
  [Next]_vars => \/ RefreshStep
                 \/ \E s \in Stream : StreamStep(s)
                 \/ UNCHANGED poTokenVars
<1> SUFFICES ASSUME Next PROVE RefreshStep \/ (\E s \in Stream : StreamStep(s)) \/ UNCHANGED poTokenVars
  BY DEF vars
<1>1. ASSUME NEW s \in Stream, PrepareStream(s) \/ TryAgain(s) \/ Begins(s) PROVE StreamStep(s)
  BY <1>1 DEF PrepareStream, TryAgain, Begins, StreamStep
<1>2. ASSUME NEW s \in Stream, Record(s) PROVE UNCHANGED poTokenVars
  BY <1>2 DEF Record
<1> QED
  BY <1>1, <1>2 DEF Next

-----------------------------------------------------------------------------
(* The PO token *)

InProgress(c) == awaits[c] \in {"visitorData", "challenge", "poToken"}

LEMMA PoTokenTypeStep ==
  PoTokenTypeOK /\ (RefreshStep \/ (\E s \in Stream : StreamStep(s)) \/ UNCHANGED poTokenVars)
    => PoTokenTypeOK'
<1> SUFFICES ASSUME PoTokenTypeOK,
                    RefreshStep \/ (\E s \in Stream : StreamStep(s)) \/ UNCHANGED poTokenVars
             PROVE  PoTokenTypeOK'
  OBVIOUS
<1> USE PeriodAssumption DEF PoTokenTypeOK, timeVars, streamVars, refreshVars
<1>1. ASSUME NEW c \in Caller, RefreshPoToken(c), age' = age, sinceCron' \in 0..Interval,
             UNCHANGED streamVars
      PROVE  PoTokenTypeOK'
  BY <1>1 DEF RefreshPoToken, Goes
<1>2. CASE OnModuleInit
  BY <1>1, <1>2 DEF OnModuleInit, Caller
<1>3. CASE HandleCron
  BY <1>1, <1>3 DEF HandleCron, Caller
<1>4. CASE CronRefused
  BY <1>4 DEF CronRefused
<1>5. CASE Tick
  BY <1>5 DEF Tick
<1>6. ASSUME NEW c \in Caller, VisitorData(c) \/ Challenge(c) PROVE PoTokenTypeOK'
  BY <1>6 DEF VisitorData, Challenge, Goes
<1>7. ASSUME NEW c \in Caller, Generated(c) \/ RefreshFails(c) PROVE PoTokenTypeOK'
  <2>1. Restore(c)
    BY <1>7 DEF Generated, RefreshFails
  <2>2. token' \in {"none", "empty", "made"} /\ missed' \in BOOLEAN
    BY <1>7 DEF Generated, RefreshFails
  <2>3. age' \in 0..MaxAge
    BY <1>7 DEF Generated, RefreshFails
  <2> QED
    BY <2>1, <2>2, <2>3 DEF Restore, Goes
<1>8. ASSUME NEW s \in Stream, CreateStream(s) PROVE PoTokenTypeOK'
  BY <1>8 DEF CreateStream
<1>9. ASSUME NEW s \in Stream, Retry(s) PROVE PoTokenTypeOK'
  BY <1>9 DEF Retry
<1>10. ASSUME NEW s \in Stream, Pause(s) PROVE PoTokenTypeOK'
  BY <1>10 DEF Pause
<1>11. ASSUME NEW s \in Stream, StreamSettles(s) PROVE PoTokenTypeOK'
  BY <1>11 DEF StreamSettles
<1>12. CASE UNCHANGED poTokenVars
  BY <1>12 DEF poTokenVars
<1> QED
  BY <1>2, <1>3, <1>4, <1>5, <1>6, <1>7, <1>8, <1>9, <1>10, <1>11, <1>12
     DEF RefreshStep, StreamStep

LEMMA PoTokenType == Spec => []PoTokenTypeOK
<1>1. ASSUME PoTokenInit PROVE PoTokenTypeOK
  <2>1. attempt \in [Stream -> 0..Retries] /\ pausing = {}
    BY <1>1, PeriodAssumption DEF PoTokenInit
  <2>2. awaits \in [Caller -> {"start", "idle", "visitorData", "challenge", "poToken"}]
    BY <1>1 DEF PoTokenInit
  <2>3. saved \in [Caller -> {"own", "dom"}]
    BY <1>1 DEF PoTokenInit
  <2>4. age \in 0..MaxAge /\ sinceCron \in 0..Interval
    BY <1>1, PeriodAssumption DEF PoTokenInit
  <2>5. /\ token \in {"none", "empty", "made"} /\ refreshing \in BOOLEAN
        /\ globals \in {"own", "dom"} /\ missed \in BOOLEAN
    BY <1>1 DEF PoTokenInit
  <2> QED
    BY <2>1, <2>2, <2>3, <2>4, <2>5 DEF PoTokenTypeOK
<1>2. Init => PoTokenTypeOK
  BY <1>1 DEF Init
<1> QED
  BY <1>2, PoTokenTypeStep, NextPoToken, PTL DEF Spec

\* One refresh at a time, which saved the globals of the process.
OneRefresh ==
    /\ ~ refreshing => globals = "own" /\ \A c \in Caller : ~ InProgress(c)
    /\ \A c \in Caller : InProgress(c) => saved[c] = "own"
    /\ \A c, d \in Caller : InProgress(c) /\ InProgress(d) => c = d

\* What the token is worth when no refresh was missed: it is younger than the
\* time since the cron job last ran.
FreshToken == token = "made" /\ ~ missed /\ ~ refreshing => age <= sinceCron

LEMMA RefreshInvStep ==
  PoTokenTypeOK /\ OneRefresh /\ FreshToken
    /\ (RefreshStep \/ (\E s \in Stream : StreamStep(s)) \/ UNCHANGED poTokenVars)
    => (OneRefresh /\ FreshToken)'
<1> SUFFICES ASSUME PoTokenTypeOK, OneRefresh, FreshToken,
                    RefreshStep \/ (\E s \in Stream : StreamStep(s)) \/ UNCHANGED poTokenVars
             PROVE  (OneRefresh /\ FreshToken)'
  OBVIOUS
<1> USE PeriodAssumption
    DEF PoTokenTypeOK, OneRefresh, FreshToken, InProgress, timeVars, streamVars, refreshVars
<1>1. ASSUME NEW c \in Caller, ~ InProgress(c), RefreshPoToken(c) PROVE (OneRefresh /\ FreshToken)'
  BY <1>1 DEF RefreshPoToken, Goes
<1>2. CASE OnModuleInit
  BY <1>1, <1>2 DEF OnModuleInit, Caller
<1>3. CASE HandleCron
  BY <1>1, <1>3 DEF HandleCron, Caller
<1>4. CASE CronRefused
  BY <1>4 DEF CronRefused
<1>5. CASE Tick
  BY <1>5 DEF Tick
<1>6. ASSUME NEW c \in Caller, VisitorData(c) \/ Challenge(c) PROVE (OneRefresh /\ FreshToken)'
  BY <1>6 DEF VisitorData, Challenge, Goes
<1>7. ASSUME NEW c \in Caller, Generated(c) \/ RefreshFails(c) PROVE (OneRefresh /\ FreshToken)'
  <2>1. \A d \in Caller : InProgress(d) => d = c
    BY <1>7 DEF Generated, RefreshFails
  <2>2. globals' = "own" /\ \A d \in Caller : ~ InProgress(d)'
    BY <1>7, <2>1 DEF Generated, RefreshFails, Restore, Goes
  <2>3. missed' \/ (age' = 0 /\ sinceCron' = sinceCron)
    BY <1>7 DEF Generated, RefreshFails, Restore
  <2> QED
    BY <2>2, <2>3
<1>8. CASE (\E s \in Stream : StreamStep(s)) \/ UNCHANGED poTokenVars
  BY <1>8 DEF StreamStep, CreateStream, Retry, Pause, StreamSettles, poTokenVars
<1> QED
  BY <1>2, <1>3, <1>4, <1>5, <1>6, <1>7, <1>8 DEF RefreshStep

LEMMA RefreshInvariant == Spec => [](OneRefresh /\ FreshToken)
<1>1. Init => OneRefresh /\ FreshToken
  BY DEF Init, PoTokenInit, OneRefresh, FreshToken, InProgress, Caller
<1> QED
  BY <1>1, RefreshInvStep, NextPoToken, PoTokenType, PTL DEF Spec

(* The window and document of the process come back when no refresh is under   *)
(* way: isRefreshing lets no second one save those of the first.               *)
THEOREM PlaybackGlobals == Spec => []GlobalsRestored
<1>1. PoTokenTypeOK /\ OneRefresh => GlobalsRestored
  BY DEF PoTokenTypeOK, OneRefresh, InProgress, GlobalsRestored
<1> QED
  BY <1>1, PoTokenType, RefreshInvariant, PTL

(* Four hours are less than six: with no refresh missed, the cron job replaces *)
(* a token before it expires, and no client asks whether it did.               *)
THEOREM PlaybackStale == Spec => []StaleOnlyWhenMissed
<1>1. PoTokenTypeOK /\ FreshToken => StaleOnlyWhenMissed
  BY PeriodAssumption DEF PoTokenTypeOK, FreshToken, StaleOnlyWhenMissed
<1> QED
  BY <1>1, PoTokenType, RefreshInvariant, PTL

-----------------------------------------------------------------------------
(* Songs *)

Commits(s) ==
    /\ call[s].at = "flushing"
    /\ Committed(s)
    /\ call' = [call EXCEPT ![s] = Idle]

Fails(s) == call' = [call EXCEPT ![s] = Idle] /\ UNCHANGED <<rows, recorded, overlapped>>

SongStep(s) == (\E u \in Url : Create(s, u)) \/ Find(s) \/ Commits(s) \/ Fails(s)

LEMMA NextSongs == [Next]_vars => (\E s \in Chain : SongStep(s)) \/ UNCHANGED songVars
<1> SUFFICES ASSUME Next PROVE (\E s \in Chain : SongStep(s)) \/ UNCHANGED songVars
  BY DEF vars
<1>1. ASSUME NEW s \in Stream, PrepareStream(s) \/ TryAgain(s) PROVE UNCHANGED songVars
  BY <1>1 DEF PrepareStream, TryAgain
<1>2. ASSUME NEW s \in Stream, Begins(s) PROVE SongStep(s) \/ UNCHANGED songVars
  BY <1>2 DEF Begins, SongStep
<1>3. ASSUME NEW s \in Stream, Record(s) PROVE SongStep(s)
  BY <1>3 DEF Record, SongStep, Flush, CreateFails, Commits, Fails
<1> QED
  BY <1>1, <1>2, <1>3, ChainAssumption DEF Next

SongRow == [url : Url, count : Nat \ {0}]

LEMMA SongFacts ==
  ASSUME SongsTypeOK
  PROVE  /\ Len(rows) \in Nat /\ DOMAIN rows = 1..Len(rows)
         /\ rows \in [1..Len(rows) -> SongRow]
         /\ \A u : RowsOf(u) \subseteq 1..Len(rows)
BY LenProperties DEF SongsTypeOK, SongRow, RowsOf

\* A commit that found no row, and one that found a row.
LEMMA NewRow ==
  ASSUME SongsTypeOK, NEW s \in Chain, Commits(s), call[s].row = NoRow
  PROVE  /\ rows' \in Seq(SongRow) /\ Len(rows') = Len(rows) + 1
         /\ \A i \in 1..Len(rows) : rows'[i] = rows[i]
         /\ rows'[Len(rows) + 1] = [url |-> call[s].url, count |-> 1]
         /\ call[s].url \in Url /\ overlapped' = overlapped
<1>1. call[s].url \in Url /\ rows' = Append(rows, [url |-> call[s].url, count |-> 1])
  BY DEF SongsTypeOK, Commits, Committed, Written
<1>2. rows \in Seq(SongRow) /\ [url |-> call[s].url, count |-> 1] \in SongRow
  BY <1>1 DEF SongsTypeOK, SongRow
<1>3. overlapped' = overlapped
  BY DEF Commits, Committed, Overlapped
<1> QED
  BY <1>1, <1>2, <1>3

LEMMA OldRow ==
  ASSUME SongsTypeOK, NEW s \in Chain, Commits(s), call[s].row # NoRow
  PROVE  /\ call[s].row \in RowsOf(call[s].url) /\ call[s].url \in Url
         /\ rows' \in Seq(SongRow) /\ Len(rows') = Len(rows)
         /\ \A i \in 1..Len(rows) :
               /\ rows'[i].url = rows[i].url
               /\ rows'[i].count = IF i = call[s].row THEN call[s].count + 1 ELSE rows[i].count
         /\ rows[call[s].row].count # call[s].count => call[s].url \in overlapped'
         /\ overlapped \subseteq overlapped'
<1>1. call[s].row \in RowsOf(call[s].url) /\ call[s].url \in Url
  BY DEF SongsTypeOK, Commits
<1>2. call[s].row \in 1..Len(rows) /\ call[s].count + 1 \in Nat \ {0}
  BY <1>1, SongFacts DEF SongsTypeOK
<1>3. rows[call[s].row] \in SongRow /\ rows \in Seq(SongRow)
  BY <1>2, SongFacts DEF SongsTypeOK, SongRow
<1>4. PICK e : e = [rows[call[s].row] EXCEPT !.count = call[s].count + 1]
  OBVIOUS
<1>5. e \in SongRow /\ e.url = rows[call[s].row].url /\ e.count = call[s].count + 1
  BY <1>2, <1>3, <1>4 DEF SongRow
<1>6. rows' = [rows EXCEPT ![call[s].row] = e]
  BY <1>4 DEF Commits, Committed, Written
<1>7. rows' \in Seq(SongRow) /\ Len(rows') = Len(rows)
  BY <1>2, <1>3, <1>5, <1>6, ExceptSeq
<1>8. /\ rows[call[s].row].count # call[s].count => call[s].url \in overlapped'
      /\ overlapped \subseteq overlapped'
  BY DEF Commits, Committed, Overlapped
<1>9. \A i \in 1..Len(rows) :
         rows'[i] = IF i = call[s].row THEN e ELSE rows[i]
  BY <1>6, SongFacts
<1> QED
  BY <1>1, <1>5, <1>7, <1>8, <1>9

\* The rows of a song stay its rows.
LEMMA RowsStay ==
  ASSUME SongsTypeOK, NEW s \in Chain, Commits(s)
  PROVE  /\ rows' \in Seq(SongRow) /\ Len(rows') \in Nat /\ Len(rows) <= Len(rows')
         /\ \A u : RowsOf(u) \subseteq RowsOf(u)'
<1>1. /\ rows' \in Seq(SongRow) /\ Len(rows) \in Nat
      /\ Len(rows') = Len(rows) \/ Len(rows') = Len(rows) + 1
      /\ \A i \in 1..Len(rows) : rows'[i].url = rows[i].url
  <2>1. CASE call[s].row = NoRow
    BY <2>1, NewRow, SongFacts
  <2>2. CASE call[s].row # NoRow
    BY <2>2, OldRow, SongFacts
  <2> QED
    BY <2>1, <2>2
<1>2. DOMAIN rows' = 1..Len(rows')
  BY <1>1, LenProperties
<1>3. ASSUME NEW u, NEW i \in RowsOf(u) PROVE i \in RowsOf(u)'
  <2>1. i \in 1..Len(rows) /\ rows[i].url = u
    BY SongFacts DEF RowsOf
  <2>2. i \in 1..Len(rows') /\ rows'[i].url = u
    BY <1>1, <2>1
  <2> QED
    BY <1>2, <2>2 DEF RowsOf
<1> QED
  BY <1>1, <1>3

\* The record of a call: of the rows there are, with a song when it is under way.
CallOf(n) == [at : {"idle", "finding", "flushing"}, url : Url \cup {NoUrl}, row : 0..n, count : Nat]

LEMMA SongsTypeStep == SongsTypeOK /\ ((\E s \in Chain : SongStep(s)) \/ UNCHANGED songVars) => SongsTypeOK'
<1> SUFFICES ASSUME SongsTypeOK, (\E s \in Chain : SongStep(s)) \/ UNCHANGED songVars
             PROVE  SongsTypeOK'
  OBVIOUS
<1>1. ASSUME NEW s \in Chain, NEW u \in Url, Create(s, u) PROVE SongsTypeOK'
  BY <1>1 DEF Create, SongsTypeOK, Idle, NoRow, RowsOf
<1>2. ASSUME NEW s \in Chain, Find(s) PROVE SongsTypeOK'
  <2>1. UNCHANGED <<rows, recorded, overlapped>> /\ call[s].at = "finding" /\ call[s].url \in Url
    BY <1>2 DEF Find, SongsTypeOK
  <2>2. CASE call' = [call EXCEPT ![s].at = "flushing"]
    BY <2>1, <2>2 DEF SongsTypeOK, RowsOf
  <2>3. CASE \E i \in RowsOf(call[s].url) :
               call' = [call EXCEPT ![s].at = "flushing", ![s].row = i, ![s].count = rows[i].count]
    <3>1. PICK i \in RowsOf(call[s].url) :
               call' = [call EXCEPT ![s].at = "flushing", ![s].row = i, ![s].count = rows[i].count]
      BY <2>3
    <3>2. i \in 1..Len(rows) /\ rows[i].count \in Nat
      BY SongFacts DEF SongRow
    <3>3. /\ call'[s].at = "flushing" /\ call'[s].url = call[s].url
          /\ call'[s].row = i /\ call'[s].count = rows[i].count
          /\ call'[s] \in CallOf(Len(rows))
      <4>1. call[s] \in CallOf(Len(rows)) /\ DOMAIN call = Chain
        BY DEF SongsTypeOK, CallOf
      <4>2. call'[s] = [at |-> "flushing", url |-> call[s].url, row |-> i, count |-> rows[i].count]
        BY <3>1, <4>1 DEF CallOf
      <4> QED
        BY <3>2, <4>1, <4>2 DEF CallOf
    <3>4. \A t \in Chain \ {s} : call'[t] = call[t]
      BY <3>1 DEF SongsTypeOK
    <3>5. call' \in [Chain -> CallOf(Len(rows))]
      BY <3>1, <3>3, <3>4 DEF SongsTypeOK, CallOf
    <3>6. \A u : RowsOf(u)' = RowsOf(u)
      BY <2>1 DEF RowsOf
    <3>7. \A t \in Chain : \A u : /\ call'[t].at # "idle" => call'[t].url \in Url
                                  /\ call'[t].row # NoRow /\ call'[t].url = u
                                       => call'[t].row \in RowsOf(u)'
      BY <2>1, <3>3, <3>4, <3>6 DEF SongsTypeOK
    <3> QED
      BY <2>1, <3>5, <3>7 DEF SongsTypeOK, CallOf
  <2> QED
    BY <1>2, <2>2, <2>3 DEF Find
<1>3. ASSUME NEW s \in Chain, Commits(s) PROVE SongsTypeOK'
  <2>1. /\ rows' \in Seq(SongRow) /\ Len(rows') \in Nat /\ Len(rows) <= Len(rows')
        /\ \A u : RowsOf(u) \subseteq RowsOf(u)'
    BY <1>3, RowsStay
  <2>2. \A t \in Chain : call'[t] = call[t] \/ call'[t] = Idle
    BY <1>3 DEF Commits, SongsTypeOK
  <2>3. call' \in [Chain -> CallOf(Len(rows'))]
    <3>1. Idle \in CallOf(Len(rows')) /\ CallOf(Len(rows)) \subseteq CallOf(Len(rows'))
      BY <2>1, SongFacts DEF Idle, NoRow, CallOf
    <3>2. call \in [Chain -> CallOf(Len(rows))]
      BY DEF SongsTypeOK, CallOf
    <3> QED
      BY <1>3, <3>1, <3>2 DEF Commits
  <2>4. \A t \in Chain : \A u : /\ call'[t].at # "idle" => call'[t].url \in Url
                                /\ call'[t].row # NoRow /\ call'[t].url = u
                                     => call'[t].row \in RowsOf(u)'
    <3> SUFFICES ASSUME NEW t \in Chain, NEW u
                 PROVE  /\ call'[t].at # "idle" => call'[t].url \in Url
                        /\ call'[t].row # NoRow /\ call'[t].url = u => call'[t].row \in RowsOf(u)'
      OBVIOUS
    <3>1. CASE call'[t] = call[t]
      BY <2>1, <3>1 DEF SongsTypeOK
    <3>2. CASE call'[t] = Idle
      BY <3>2 DEF Idle
    <3> QED
      BY <2>2, <3>1, <3>2
  <2>5. recorded' \in [Url -> Nat] /\ overlapped' \subseteq Url
    BY <1>3 DEF Commits, Committed, SongsTypeOK
  <2> QED
    BY <2>1, <2>3, <2>4, <2>5 DEF SongsTypeOK, SongRow, CallOf
<1>4. ASSUME NEW s \in Chain, Fails(s) PROVE SongsTypeOK'
  BY <1>4 DEF Fails, SongsTypeOK, Idle, NoRow, RowsOf
<1>5. CASE UNCHANGED songVars
  BY <1>5 DEF songVars, SongsTypeOK, RowsOf
<1> QED
  BY <1>1, <1>2, <1>3, <1>4, <1>5 DEF SongStep

(* Types of the whole: a call that found a row holds one of its own song.      *)
THEOREM PlaybackType == Spec => []TypeOK
<1>1. Init => SongsTypeOK
  BY DEF Init, SongsInit, SongsTypeOK, Idle, NoRow, RowsOf
<1> QED
  BY <1>1, SongsTypeStep, NextSongs, PoTokenType, PTL DEF Spec, TypeOK

\* The plays committed through each row, R, as pairs of the row and a number.
Through(R, u) == {p \in RowsOf(u) \X Nat : 1 <= p[2] /\ p[2] <= R[p[1]]}

\* A row or a pending call counts no more plays than were committed through the
\* row, and as many if no write of the song overlapped another.
CountsWith(R) ==
    /\ \A i \in 1..Len(rows) : rows[i].count <= R[i]
    /\ \A s \in Chain : call[s].row # NoRow => call[s].count <= R[call[s].row]
    /\ \A u \in Url :
          /\ IsFiniteSet(Through(R, u)) /\ Cardinality(Through(R, u)) = recorded[u]
          /\ u \notin overlapped => \A i \in RowsOf(u) : rows[i].count = R[i]

SongsCounted == \E R \in [1..Len(rows) -> Nat] : CountsWith(R)

\* One play more through a row of song v.
LEMMA AddedPlay ==
  ASSUME SongsTypeOK, NEW u \in Url, NEW v \in Url, NEW old, NEW new, NEW p,
         recorded' = [recorded EXCEPT ![v] = @ + 1],
         new = IF u = v THEN old \cup {p} ELSE old, p \notin old,
         IsFiniteSet(old), Cardinality(old) = recorded[u]
  PROVE  IsFiniteSet(new) /\ Cardinality(new) = recorded'[u]
<1>1. recorded'[u] = IF u = v THEN recorded[u] + 1 ELSE recorded[u]
  BY DEF SongsTypeOK
<1>2. IsFiniteSet(old \cup {p}) /\ Cardinality(old \cup {p}) = Cardinality(old) + 1
  BY FS_AddElement
<1> QED
  BY <1>1, <1>2

\* A new row has its first play.
LEMMA NewRowCounts ==
  ASSUME SongsTypeOK, SongsTypeOK', NEW R \in [1..Len(rows) -> Nat], CountsWith(R),
         NEW s \in Chain, Commits(s), call[s].row = NoRow
  PROVE  SongsCounted'
<1>1. PICK n : n = Len(rows) + 1
  OBVIOUS
<1>2. PICK Q : Q = [i \in 1..n |-> IF i = n THEN 1 ELSE R[i]]
  OBVIOUS
<1>3. /\ n \in Nat \ {0} /\ Len(rows') = n /\ DOMAIN rows' = 1..n /\ DOMAIN rows = 1..(n - 1)
      /\ Len(rows) = n - 1
      /\ \A i \in 1..(n - 1) : rows'[i] = rows[i]
      /\ rows'[n] = [url |-> call[s].url, count |-> 1]
      /\ call[s].url \in Url /\ overlapped' = overlapped
  BY <1>1, NewRow, SongFacts, LenProperties
<1>4. Q \in [1..n -> Nat] /\ Q[n] = 1 /\ \A i \in 1..(n - 1) : Q[i] = R[i]
  BY <1>2, <1>3
<1>5. recorded' = [recorded EXCEPT ![call[s].url] = @ + 1] /\ recorded \in [Url -> Nat]
  BY DEF Commits, Committed, SongsTypeOK
<1>6. \A i \in 1..Len(rows)' : rows'[i].count <= Q[i]
  BY <1>3, <1>4 DEF CountsWith
<1>7. \A t \in Chain : call'[t].row # NoRow => call'[t].count <= Q[call'[t].row]
  <2> SUFFICES ASSUME NEW t \in Chain, call'[t].row # NoRow
               PROVE  call'[t].count <= Q[call'[t].row]
    OBVIOUS
  <2>1. call'[t] = call[t]
    BY DEF Commits, SongsTypeOK, Idle
  <2>2. call[t].row \in 1..(n - 1)
    BY <1>3, <2>1 DEF SongsTypeOK, RowsOf
  <2> QED
    BY <1>4, <2>1, <2>2 DEF CountsWith
<1>8. ASSUME NEW u \in Url
      PROVE  /\ IsFiniteSet(Through(Q, u)') /\ Cardinality(Through(Q, u)') = recorded'[u]
             /\ u \notin overlapped' => \A i \in RowsOf(u)' : rows'[i].count = Q[i]
  <2>1. RowsOf(u)' = IF u = call[s].url THEN RowsOf(u) \cup {n} ELSE RowsOf(u)
    BY <1>3 DEF RowsOf
  <2>2. RowsOf(u) \subseteq 1..(n - 1)
    BY <1>3 DEF RowsOf
  <2>3. Through(Q, u)' = IF u = call[s].url THEN Through(R, u) \cup {<<n, 1>>} ELSE Through(R, u)
    BY <1>3, <1>4, <2>1, <2>2 DEF Through
  <2>4. <<n, 1>> \notin Through(R, u)
    BY <1>3, <2>2 DEF Through
  <2>5. IsFiniteSet(Through(R, u)) /\ Cardinality(Through(R, u)) = recorded[u]
    BY DEF CountsWith
  <2>6. IsFiniteSet(Through(Q, u)') /\ Cardinality(Through(Q, u)') = recorded'[u]
    BY <1>5, <2>3, <2>4, <2>5, AddedPlay
  <2>7. u \notin overlapped' => \A i \in RowsOf(u)' : rows'[i].count = Q[i]
    BY <1>3, <1>4, <2>1, <2>2 DEF CountsWith
  <2> QED
    BY <2>6, <2>7
<1> QED
  BY <1>3, <1>4, <1>6, <1>7, <1>8 DEF SongsCounted, CountsWith

\* A row that was found has one play more than were committed through it.
LEMMA OldRowCounts ==
  ASSUME SongsTypeOK, SongsTypeOK', NEW R \in [1..Len(rows) -> Nat], CountsWith(R),
         NEW s \in Chain, Commits(s), call[s].row # NoRow
  PROVE  SongsCounted'
<1>1. PICK k : k = call[s].row
  OBVIOUS
<1>2. PICK Q : Q = [R EXCEPT ![k] = R[k] + 1]
  OBVIOUS
<1>3. /\ k \in RowsOf(call[s].url) /\ call[s].url \in Url
      /\ Len(rows) \in Nat /\ Len(rows') = Len(rows)
      /\ DOMAIN rows' = 1..Len(rows) /\ DOMAIN rows = 1..Len(rows)
      /\ \A i \in 1..Len(rows) :
            /\ rows'[i].url = rows[i].url
            /\ rows'[i].count = IF i = k THEN call[s].count + 1 ELSE rows[i].count
      /\ rows[k].count # call[s].count => call[s].url \in overlapped'
      /\ overlapped \subseteq overlapped'
  BY <1>1, OldRow, SongFacts, LenProperties
<1>4. k \in 1..Len(rows) /\ rows[k].url = call[s].url
  BY <1>3 DEF RowsOf
<1>5. /\ Q \in [1..Len(rows) -> Nat] /\ Q[k] = R[k] + 1 /\ R[k] \in Nat
      /\ \A i \in 1..Len(rows) : i # k => Q[i] = R[i]
      /\ \A i \in 1..Len(rows) : R[i] <= Q[i]
  BY <1>2, <1>4
<1>6. call[s].count <= R[k] /\ call[s].count \in Nat
  BY <1>1 DEF CountsWith, SongsTypeOK
<1>7. \A i \in 1..Len(rows)' : rows'[i].count <= Q[i]
  BY <1>3, <1>5, <1>6 DEF CountsWith
<1>8. \A t \in Chain : call'[t].row # NoRow => call'[t].count <= Q[call'[t].row]
  <2> SUFFICES ASSUME NEW t \in Chain, call'[t].row # NoRow
               PROVE  call'[t].count <= Q[call'[t].row]
    OBVIOUS
  <2>1. call'[t] = call[t]
    BY DEF Commits, SongsTypeOK, Idle
  <2>2. call[t].row \in 1..Len(rows) /\ call[t].count \in Nat
    BY <1>3, <2>1 DEF SongsTypeOK, RowsOf
  <2>3. call[t].count <= R[call[t].row]
    BY <2>1 DEF CountsWith
  <2>4. R[call[t].row] \in Nat /\ Q[call[t].row] \in Nat /\ R[call[t].row] <= Q[call[t].row]
    BY <1>5, <2>2
  <2> QED
    BY <2>1, <2>2, <2>3, <2>4
<1>9. ASSUME NEW u \in Url
      PROVE  /\ IsFiniteSet(Through(Q, u)') /\ Cardinality(Through(Q, u)') = recorded'[u]
             /\ u \notin overlapped' => \A i \in RowsOf(u)' : rows'[i].count = Q[i]
  <2>1. RowsOf(u)' = RowsOf(u) /\ RowsOf(u) \subseteq 1..Len(rows)
    BY <1>3 DEF RowsOf
  <2>2. k \in RowsOf(u) <=> u = call[s].url
    BY <1>3, <1>4 DEF RowsOf
  <2>3. Through(Q, u)' = IF u = call[s].url THEN Through(R, u) \cup {<<k, R[k] + 1>>}
                         ELSE Through(R, u)
    BY <1>5, <2>1, <2>2 DEF Through
  <2>4. <<k, R[k] + 1>> \notin Through(R, u)
    BY <1>5 DEF Through
  <2>5. IsFiniteSet(Through(R, u)) /\ Cardinality(Through(R, u)) = recorded[u]
    BY DEF CountsWith
  <2>6. recorded' = [recorded EXCEPT ![call[s].url] = @ + 1]
    BY DEF Commits, Committed
  <2>7. IsFiniteSet(Through(Q, u)') /\ Cardinality(Through(Q, u)') = recorded'[u]
    <3>1. PICK p : p = <<k, R[k] + 1>>
      OBVIOUS
    <3>2. /\ Through(Q, u)' = IF u = call[s].url THEN Through(R, u) \cup {p} ELSE Through(R, u)
          /\ p \notin Through(R, u) /\ call[s].url \in Url
      BY <1>3, <2>3, <2>4, <3>1
    <3>3. CASE u = call[s].url
      <4>1. recorded'[u] = recorded[u] + 1
        BY <2>6, <3>3 DEF SongsTypeOK
      <4>2. Through(Q, u)' = Through(R, u) \cup {p}
        BY <3>2, <3>3
      <4>3. p \notin Through(R, u)
        BY <3>2
      <4>4. IsFiniteSet(Through(R, u) \cup {p})
        BY <2>5, FS_AddElement
      <4>5. Cardinality(Through(R, u) \cup {p}) = Cardinality(Through(R, u)) + 1
        BY <2>5, <4>3, FS_AddElement
      <4> QED
        BY <2>5, <4>1, <4>2, <4>4, <4>5
    <3>4. CASE u # call[s].url
      <4>1. recorded'[u] = recorded[u]
        BY <2>6, <3>4 DEF SongsTypeOK
      <4>2. Through(Q, u)' = Through(R, u)
        BY <3>2, <3>4
      <4> QED
        BY <2>5, <4>1, <4>2
    <3> QED
      BY <3>3, <3>4
  <2>8. ASSUME u \notin overlapped', NEW i \in RowsOf(u) PROVE rows'[i].count = Q[i]
    <3>1. rows[i].count = R[i]
      BY <1>3, <2>8 DEF CountsWith
    <3>2. CASE i = k
      BY <1>3, <1>4, <1>5, <2>2, <2>8, <3>1, <3>2
    <3>3. CASE i # k
      BY <1>3, <1>5, <2>1, <3>1, <3>3
    <3> QED
      BY <3>2, <3>3
  <2> QED
    BY <2>1, <2>7, <2>8
<1> QED
  BY <1>3, <1>5, <1>7, <1>8, <1>9 DEF SongsCounted, CountsWith

LEMMA SongsCountedStep ==
  SongsTypeOK /\ SongsTypeOK' /\ SongsCounted
    /\ ((\E s \in Chain : SongStep(s)) \/ UNCHANGED songVars) => SongsCounted'
<1> SUFFICES ASSUME SongsTypeOK, SongsTypeOK', NEW R \in [1..Len(rows) -> Nat], CountsWith(R),
                    (\E s \in Chain : SongStep(s)) \/ UNCHANGED songVars
             PROVE  SongsCounted'
  BY DEF SongsCounted
<1>1. ASSUME UNCHANGED <<rows, recorded, overlapped>>,
             \A t \in Chain : call'[t].row # NoRow => call'[t].count <= R[call'[t].row]
      PROVE  SongsCounted'
  <2>1. \A u : Through(R, u)' = Through(R, u) /\ RowsOf(u)' = RowsOf(u)
    BY <1>1 DEF Through, RowsOf
  <2> QED
    BY <1>1, <2>1 DEF SongsCounted, CountsWith
<1>2. ASSUME NEW s \in Chain, NEW u \in Url, Create(s, u) PROVE SongsCounted'
  BY <1>1, <1>2 DEF Create, Idle, SongsTypeOK, CountsWith
<1>3. ASSUME NEW s \in Chain, Find(s) PROVE SongsCounted'
  <2>1. CASE call' = [call EXCEPT ![s].at = "flushing"]
    <3>1. \A t \in Chain : call'[t].row = call[t].row /\ call'[t].count = call[t].count
      BY <2>1 DEF SongsTypeOK
    <3>2. UNCHANGED <<rows, recorded, overlapped>>
      BY <1>3 DEF Find
    <3> QED
      BY <1>1, <3>1, <3>2 DEF CountsWith
  <2>2. CASE \E i \in RowsOf(call[s].url) :
               call' = [call EXCEPT ![s].at = "flushing", ![s].row = i, ![s].count = rows[i].count]
    <3>1. PICK i \in RowsOf(call[s].url) :
               call' = [call EXCEPT ![s].at = "flushing", ![s].row = i, ![s].count = rows[i].count]
      BY <2>2
    <3>2. rows[i].count <= R[i]
      BY SongFacts DEF CountsWith
    <3>3. call'[s] = [call[s] EXCEPT !.at = "flushing", !.row = i, !.count = rows[i].count]
      BY <3>1 DEF SongsTypeOK
    <3>4. call'[s].row = i /\ call'[s].count = rows[i].count
      BY <3>3 DEF SongsTypeOK
    <3>5. \A t \in Chain \ {s} : call'[t] = call[t]
      BY <3>1 DEF SongsTypeOK
    <3> QED
      BY <1>1, <1>3, <3>2, <3>4, <3>5 DEF Find, CountsWith
  <2> QED
    BY <1>3, <2>1, <2>2 DEF Find
<1>4. ASSUME NEW s \in Chain, Commits(s) PROVE SongsCounted'
  BY <1>4, NewRowCounts, OldRowCounts
<1>5. ASSUME NEW s \in Chain, Fails(s) PROVE SongsCounted'
  BY <1>1, <1>5 DEF Fails, Idle, SongsTypeOK, CountsWith
<1>6. CASE UNCHANGED songVars
  BY <1>1, <1>6 DEF songVars, CountsWith
<1> QED
  BY <1>2, <1>3, <1>4, <1>5, <1>6 DEF SongStep

(* A lost play has a cause: the rows of a song never count more than its       *)
(* plays, and exactly those while no write of it overlapped another.           *)
THEOREM PlaybackCounts == Spec => []CountsArePlays
<1>1. Init => SongsCounted
  <2> SUFFICES ASSUME Init PROVE SongsCounted
    OBVIOUS
  <2>1. PICK R : R = [i \in 1..Len(rows) |-> 0]
    OBVIOUS
  <2>2. rows = <<>> /\ Len(rows) = 0 /\ overlapped = {} /\ \A u \in Url : recorded[u] = 0
    BY DEF Init, SongsInit
  <2>3. \A u : RowsOf(u) = {} /\ Through(R, u) = {}
    BY <2>2 DEF RowsOf, Through
  <2>4. \A s \in Chain : call[s].row = NoRow
    BY DEF Init, SongsInit, Idle
  <2>5. CountsWith(R)
    BY <2>2, <2>3, <2>4, FS_EmptySet DEF CountsWith
  <2> QED
    BY <2>1, <2>5 DEF SongsCounted
<1>2. Spec => []SongsCounted
  BY <1>1, SongsCountedStep, NextSongs, PlaybackType, PTL DEF Spec, TypeOK
<1>3. TypeOK /\ SongsCounted => CountsArePlays
  <2> SUFFICES ASSUME SongsTypeOK, NEW R \in [1..Len(rows) -> Nat], CountsWith(R), NEW u \in Url
               PROVE  /\ Plays(u) <= recorded[u]
                      /\ u \notin overlapped => Plays(u) = recorded[u]
    BY DEF TypeOK, SongsCounted, CountsArePlays
  <2>1. IsFiniteSet(Through(R, u)) /\ Cardinality(Through(R, u)) = recorded[u]
    BY DEF CountsWith
  <2>2. \A i \in RowsOf(u) :
           /\ rows[i].count \in Nat /\ R[i] \in Nat
           /\ rows[i].count <= R[i]
           /\ u \notin overlapped => rows[i].count = R[i]
    BY SongFacts DEF SongRow, CountsWith
  <2>3. \A p : p \in Played(u) <=> \E i \in RowsOf(u) : \E n \in 1..rows[i].count : p = <<i, n>>
    BY DEF Played
  <2>4. Played(u) \subseteq Through(R, u)
    <3> SUFFICES ASSUME NEW i \in RowsOf(u), NEW n \in 1..rows[i].count
                 PROVE  <<i, n>> \in Through(R, u)
      BY <2>3
    <3>1. n \in Nat /\ 1 <= n /\ n <= R[i]
      BY <2>2
    <3> QED
      BY <3>1 DEF Through
  <2>5. u \notin overlapped => Through(R, u) \subseteq Played(u)
    <3> SUFFICES ASSUME u \notin overlapped, NEW p \in Through(R, u) PROVE p \in Played(u)
      OBVIOUS
    <3>1. PICK i \in RowsOf(u), n \in Nat : p = <<i, n>>
      BY DEF Through
    <3>2. 1 <= n /\ n <= R[i]
      BY <3>1 DEF Through
    <3>3. n \in 1..rows[i].count
      BY <2>2, <3>2
    <3> QED
      BY <2>3, <3>1, <3>3
  <2>6. IsFiniteSet(Played(u)) /\ Cardinality(Played(u)) <= Cardinality(Through(R, u))
    BY <2>1, <2>4, FS_Subset
  <2>7. u \notin overlapped => Played(u) = Through(R, u)
    BY <2>4, <2>5
  <2> QED
    BY <2>1, <2>6, <2>7 DEF Plays
<1> QED
  BY <1>2, <1>3, PlaybackType, PTL
=============================================================================
