---------------------------- MODULE CommandsProofs ----------------------------
(***************************************************************************)
(* What the run "commands" checks of the command handlers with two         *)
(* payloads holds of any number of them.  The handlers share nothing but   *)
(* the menus: the inductive invariant says, payload by payload, what a     *)
(* handler has done when it awaits a call.                                 *)
(***************************************************************************)
EXTENDS Commands, TLAPS

\* The first await of a handler: nothing was answered, reported or acknowledged.
Fresh(a, n, r) == a = "none" /\ n = 0 /\ r = 0

\* What has been done for a payload of kind k that looks up f by the time its
\* handler is at x: a is its acknowledgement, n counts its answers, r its reports.
Fits(x, k, f, a, n, r) ==
    /\ x \in {"idle", "parse", "sayKeep", "sayPlay", "sayMenu", "defer"} => Fresh(a, n, r)
    /\ x = "parse" => k = "text" /\ f = "nothing"
    /\ x \in {"sayPlay", "sayMenu"} => f # "selected"
    /\ x = "defer" => k # "text"
    /\ x = "say" => /\ k # "text" => a = "none"
                    /\ n + r <= 1
                    /\ f # "nothing" => n + r = 0
    /\ x = "lookup" => /\ n = 0 /\ r = 0
                       /\ IF f = "selected" THEN k # "text" /\ a = "deferred" ELSE a = "none"
    /\ x = "skip" => /\ n = 0 /\ r = 0
                     /\ IF k = "slash" THEN a = "deferred" ELSE k = "text"
    /\ x = "play" => /\ r = 0
                     /\ IF f = "selected" THEN k # "text" /\ a = "deferred" /\ n = 0
                                          ELSE n = 1
    /\ x \in Editing => k # "text" /\ a = "deferred" /\ n = 0 /\ r = 0
    /\ x = "fetch" => k # "text" /\ a = "replied" /\ n = 1 /\ r = 0
    /\ x \in {"delete", "sorry"} => n <= 2 /\ r <= 2
    /\ x \in {"delete", "sorry", "done"} => n > 0 \/ r > 0
    /\ (x = "idle") = (k = "none")
    /\ f = "selected" => k = "select"
    /\ k = "select" => f = "selected"

\* The inductive invariant
HandlersFit == \A p \in Payload : Fits(pc[p], kind[p], find[p], ack[p], answers[p], reports[p])

CommandsInv == TypeOK /\ HandlersFit /\ NoMenuLost

-----------------------------------------------------------------------------

\* A handler replies and reports within its bounds: what has been done when
\* it awaits a call leaves room for what may still come.
LEMMA TypeReceive ==
    ASSUME TypeOK, HandlersFit, NEW p \in Payload, Receive(p)
    PROVE  TypeOK'
<1> USE DEF TypeOK, AnswersTypeOK, HandlersFit, Fits, Fresh, answersVars, replyVars, menuVars,
          handlerVars, Awaiting, Replying, Editing, MaxAnswers, MaxReports
<1>1. CASE Ignore(p)
  BY <1>1 DEF Ignore, Command, Comes, Goes
<1>2. CASE NoGuild(p)
  BY <1>2 DEF NoGuild, Comes, Goes, Report
<1>3. CASE Play(p)
  BY <1>3 DEF Play, MissingInput, Command, Comes, Goes
<1>4. CASE EmptyQueue(p)
  BY <1>4 DEF EmptyQueue, Command, Comes, Goes
<1>5. CASE Help(p)
  BY <1>5 DEF Help, Command, Comes, Goes
<1>6. CASE Shuffle(p)
  BY <1>6 DEF Shuffle, Command, Comes, Goes
<1>7. CASE Queue(p)
  BY <1>7 DEF Queue, Command, Comes, Goes
<1>8. CASE Leave(p)
  BY <1>8 DEF Leave, Command, Comes, Goes, ClearDeleteQueue, DropMenus
<1>9. CASE Skip(p)
  BY <1>9 DEF Skip, Command, Comes, Goes
<1>10. ASSUME NEW m \in Payload, Select(p, m) PROVE TypeOK'
  BY <1>10 DEF Select, Comes, Goes
<1> QED BY <1>1, <1>2, <1>3, <1>4, <1>5, <1>6, <1>7, <1>8, <1>9, <1>10 DEF Receive

LEMMA TypeHandlerStep ==
    ASSUME TypeOK, HandlersFit, NEW p \in Payload, HandlerStep(p)
    PROVE  TypeOK'
<1> USE DEF TypeOK, AnswersTypeOK, HandlersFit, Fits, Fresh, answersVars, replyVars, menuVars,
          handlerVars, Awaiting, Replying, Editing, MaxAnswers, MaxReports
<1>1. CASE ParseReplied(p)
  BY <1>1 DEF ParseReplied, At, Replied, Acknowledge, ReplyForAWhile, Answer, Reply, GoesOn, Goes
<1>2. CASE ParseFails(p)
  BY <1>2 DEF ParseFails, At, Report, GoesOn, Goes
<1>3. CASE LookedUp(p)
  BY <1>3 DEF LookedUp, At, Found, GoesOn, Goes
<1>4. CASE SelectedLookedUp(p)
  BY <1>4 DEF SelectedLookedUp, At, Found, GoesOn, Goes
<1>5. CASE Searched(p)
  BY <1>5 DEF Searched, At, GoesOn, Goes
<1>6. CASE SearchFails(p)
  BY <1>6 DEF SearchFails, At, Found, Throws, Report, Reporting, Settles, GoesOn,
          Goes
<1>7. CASE Said(p)
  BY <1>7 DEF Said, At, Replied, Acknowledge, ReplyForAWhile, Answer, Reply,
          Settles, GoesOn, Goes
<1>8. CASE SaidForGood(p)
  BY <1>8 DEF SaidForGood, At, Replied, Acknowledge, ReplyStays, Answer, Reply,
          Settles, GoesOn, Goes
<1>9. CASE SaidPlay(p)
  BY <1>9 DEF SaidPlay, At, Replied, Acknowledge, ReplyForAWhile, Answer, Reply,
          GoesOn, Goes
<1>10. CASE SaidMenu(p)
  BY <1>10 DEF SaidMenu, At, Replied, Acknowledge, MenuShown, Settles, GoesOn,
          Goes
<1>11. CASE Fetched(p)
  BY <1>11 DEF Fetched, At, AddToDeleteQueue, Settles, GoesOn, Goes
<1>12. CASE FetchFails(p)
  BY <1>12 DEF FetchFails, At, Throws, Report, Reporting, Settles, GoesOn, Goes
<1>13. CASE Deferred(p)
  BY <1>13 DEF Deferred, At, Acknowledge, GoesOn, Goes
<1>14. CASE Skipped(p)
  BY <1>14 DEF Skipped, At, GoesOn, Goes
<1>15. CASE Played(p)
  BY <1>15 DEF Played, At, Settles, GoesOn, Goes
<1>16. CASE Edited(p)
  BY <1>16 DEF Edited, At, ReplyForAWhile, Answer, Reply, RemoveFromDeleteQueue,
          DropMenus, Settles, GoesOn, Goes
<1>17. CASE EditedForGood(p)
  BY <1>17 DEF EditedForGood, At, ReplyStays, Answer, Reply, Settles, GoesOn, Goes
<1>18. CASE CallFails(p)
  BY <1>18 DEF CallFails, Throws, Report, Reporting, Settles, GoesOn, Goes
<1>19. CASE Deleted(p)
  BY <1>19 DEF Deleted, At, GoesOn, Goes
<1>20. CASE SaidSorry(p)
  BY <1>20 DEF SaidSorry, At, Report, NoReply, ReplyStays, Answer, Reply, GoesOn,
          Goes
<1> QED BY <1>1, <1>2, <1>3, <1>4, <1>5, <1>6, <1>7, <1>8, <1>9, <1>10, <1>11,
      <1>12, <1>13, <1>14, <1>15, <1>16, <1>17, <1>18, <1>19, <1>20 DEF
      HandlerStep

LEMMA TypeStep ==
    ASSUME TypeOK, HandlersFit, [Next]_vars
    PROVE  TypeOK'
<1> USE DEF TypeOK, AnswersTypeOK, HandlersFit, Fits, Fresh, answersVars, replyVars, menuVars,
          handlerVars, Awaiting, Replying, Editing, MaxAnswers, MaxReports
<1>1. ASSUME NEW p \in Payload, Receive(p) PROVE TypeOK'
  BY <1>1, TypeReceive
<1>2. ASSUME NEW p \in Payload, HandlerStep(p) PROVE TypeOK'
  BY <1>2, TypeHandlerStep
<1>3. CASE Login
  BY <1>3 DEF Login
<1>4. CASE LoggedIn
  BY <1>4 DEF LoggedIn
<1>5. CASE Registered
  BY <1>5 DEF Registered
<1>6. ASSUME NEW r \in Payload \X (1..MaxAnswers), Timer(r) PROVE TypeOK'
  BY <1>6 DEF Timer, TimerFires
<1>7. ASSUME NEW r \in Payload \X (1..MaxAnswers), TimerRejects(r) PROVE TypeOK'
  BY <1>7 DEF TimerRejects, AnswersRestart
<1>8. CASE Moderate
  BY <1>8 DEF Moderate, ReplyDeleted, MenuDeleted
<1>9. CASE UNCHANGED vars
  BY <1>9 DEF vars
<1> QED BY <1>1, <1>2, <1>3, <1>4, <1>5, <1>6, <1>7, <1>8, <1>9 DEF Next

-----------------------------------------------------------------------------

\* A step of a handler leaves what fits its next await, and nothing of the
\* other payloads.
LEMMA FitsReceive ==
    ASSUME TypeOK, HandlersFit, NEW p \in Payload, Receive(p)
    PROVE  HandlersFit'
<1> USE DEF TypeOK, AnswersTypeOK, HandlersFit, Fits, Fresh, answersVars, replyVars, menuVars,
          handlerVars, Awaiting, Replying, Editing
<1>1. CASE Ignore(p)
  BY <1>1 DEF Ignore, Command, Comes, Goes
<1>2. CASE NoGuild(p)
  BY <1>2 DEF NoGuild, Comes, Goes, Report
<1>3. CASE Play(p)
  BY <1>3 DEF Play, MissingInput, Command, Comes, Goes
<1>4. CASE EmptyQueue(p)
  BY <1>4 DEF EmptyQueue, Command, Comes, Goes
<1>5. CASE Help(p)
  BY <1>5 DEF Help, Command, Comes, Goes
<1>6. CASE Shuffle(p)
  BY <1>6 DEF Shuffle, Command, Comes, Goes
<1>7. CASE Queue(p)
  BY <1>7 DEF Queue, Command, Comes, Goes
<1>8. CASE Leave(p)
  BY <1>8 DEF Leave, Command, Comes, Goes, ClearDeleteQueue, DropMenus
<1>9. CASE Skip(p)
  BY <1>9 DEF Skip, Command, Comes, Goes
<1>10. ASSUME NEW m \in Payload, Select(p, m) PROVE HandlersFit'
  BY <1>10 DEF Select, Comes, Goes
<1> QED BY <1>1, <1>2, <1>3, <1>4, <1>5, <1>6, <1>7, <1>8, <1>9, <1>10 DEF Receive

LEMMA FitsHandlerStep ==
    ASSUME TypeOK, HandlersFit, NEW p \in Payload, HandlerStep(p)
    PROVE  HandlersFit'
<1> USE DEF TypeOK, AnswersTypeOK, HandlersFit, Fits, Fresh, answersVars, replyVars, menuVars,
          handlerVars, Awaiting, Replying, Editing
<1>1. CASE ParseReplied(p)
  BY <1>1 DEF ParseReplied, At, Replied, Acknowledge, ReplyForAWhile, Answer, Reply, GoesOn, Goes
<1>2. CASE ParseFails(p)
  BY <1>2 DEF ParseFails, At, Report, GoesOn, Goes
<1>3. CASE LookedUp(p)
  BY <1>3 DEF LookedUp, At, Found, GoesOn, Goes
<1>4. CASE SelectedLookedUp(p)
  BY <1>4 DEF SelectedLookedUp, At, Found, GoesOn, Goes
<1>5. CASE Searched(p)
  BY <1>5 DEF Searched, At, GoesOn, Goes
<1>6. CASE SearchFails(p)
  BY <1>6 DEF SearchFails, At, Found, Throws, Report, Reporting, Settles, GoesOn,
          Goes
<1>7. CASE Said(p)
  BY <1>7 DEF Said, At, Replied, Acknowledge, ReplyForAWhile, Answer, Reply,
          Settles, GoesOn, Goes
<1>8. CASE SaidForGood(p)
  BY <1>8 DEF SaidForGood, At, Replied, Acknowledge, ReplyStays, Answer, Reply,
          Settles, GoesOn, Goes
<1>9. CASE SaidPlay(p)
  BY <1>9 DEF SaidPlay, At, Replied, Acknowledge, ReplyForAWhile, Answer, Reply,
          GoesOn, Goes
<1>10. CASE SaidMenu(p)
  BY <1>10 DEF SaidMenu, At, Replied, Acknowledge, MenuShown, Settles, GoesOn,
          Goes
<1>11. CASE Fetched(p)
  BY <1>11 DEF Fetched, At, AddToDeleteQueue, Settles, GoesOn, Goes
<1>12. CASE FetchFails(p)
  BY <1>12 DEF FetchFails, At, Throws, Report, Reporting, Settles, GoesOn, Goes
<1>13. CASE Deferred(p)
  BY <1>13 DEF Deferred, At, Acknowledge, GoesOn, Goes
<1>14. CASE Skipped(p)
  BY <1>14 DEF Skipped, At, GoesOn, Goes
<1>15. CASE Played(p)
  BY <1>15 DEF Played, At, Settles, GoesOn, Goes
<1>16. CASE Edited(p)
  BY <1>16 DEF Edited, At, ReplyForAWhile, Answer, Reply, RemoveFromDeleteQueue,
          DropMenus, Settles, GoesOn, Goes
<1>17. CASE EditedForGood(p)
  BY <1>17 DEF EditedForGood, At, ReplyStays, Answer, Reply, Settles, GoesOn, Goes
<1>18. CASE CallFails(p)
  BY <1>18 DEF CallFails, Throws, Report, Reporting, Settles, GoesOn, Goes
<1>19. CASE Deleted(p)
  BY <1>19 DEF Deleted, At, GoesOn, Goes
<1>20. CASE SaidSorry(p)
  BY <1>20 DEF SaidSorry, At, Report, NoReply, ReplyStays, Answer, Reply, GoesOn,
          Goes
<1> QED BY <1>1, <1>2, <1>3, <1>4, <1>5, <1>6, <1>7, <1>8, <1>9, <1>10, <1>11,
      <1>12, <1>13, <1>14, <1>15, <1>16, <1>17, <1>18, <1>19, <1>20 DEF
      HandlerStep

LEMMA FitsStep ==
    ASSUME TypeOK, HandlersFit, [Next]_vars
    PROVE  HandlersFit'
<1> USE DEF TypeOK, AnswersTypeOK, HandlersFit, Fits, Fresh, answersVars, replyVars, menuVars,
          handlerVars, Awaiting, Replying, Editing
<1>1. ASSUME NEW p \in Payload, Receive(p) PROVE HandlersFit'
  BY <1>1, FitsReceive
<1>2. ASSUME NEW p \in Payload, HandlerStep(p) PROVE HandlersFit'
  BY <1>2, FitsHandlerStep
<1>3. CASE Login
  BY <1>3 DEF Login
<1>4. CASE LoggedIn
  BY <1>4 DEF LoggedIn
<1>5. CASE Registered
  BY <1>5 DEF Registered
<1>6. ASSUME NEW r \in Payload \X (1..MaxAnswers), Timer(r) PROVE HandlersFit'
  BY <1>6 DEF Timer, TimerFires
<1>7. ASSUME NEW r \in Payload \X (1..MaxAnswers), TimerRejects(r) PROVE HandlersFit'
  BY <1>7 DEF TimerRejects, AnswersRestart
<1>8. CASE Moderate
  BY <1>8 DEF Moderate, ReplyDeleted, MenuDeleted
<1>9. CASE UNCHANGED vars
  BY <1>9 DEF vars
<1> QED BY <1>1, <1>2, <1>3, <1>4, <1>5, <1>6, <1>7, <1>8, <1>9 DEF Next

-----------------------------------------------------------------------------

\* A menu leaves the delete queue only when it is deleted or is a stray, and
\* one on display is in the queue before its handler settles.
LEMMA MenuReceive ==
    ASSUME TypeOK, NoMenuLost, NEW p \in Payload, Receive(p)
    PROVE  NoMenuLost'
<1> USE DEF TypeOK, AnswersTypeOK, NoMenuLost, answersVars, replyVars, menuVars, handlerVars,
          Awaiting, Replying, Editing
<1>1. CASE Ignore(p)
  BY <1>1 DEF Ignore, Command, Comes, Goes
<1>2. CASE NoGuild(p)
  BY <1>2 DEF NoGuild, Comes, Goes, Report
<1>3. CASE Play(p)
  BY <1>3 DEF Play, MissingInput, Command, Comes, Goes
<1>4. CASE EmptyQueue(p)
  BY <1>4 DEF EmptyQueue, Command, Comes, Goes
<1>5. CASE Help(p)
  BY <1>5 DEF Help, Command, Comes, Goes
<1>6. CASE Shuffle(p)
  BY <1>6 DEF Shuffle, Command, Comes, Goes
<1>7. CASE Queue(p)
  BY <1>7 DEF Queue, Command, Comes, Goes
<1>8. CASE Leave(p)
  BY <1>8 DEF Leave, Command, Comes, Goes, ClearDeleteQueue, DropMenus
<1>9. CASE Skip(p)
  BY <1>9 DEF Skip, Command, Comes, Goes
<1>10. ASSUME NEW m \in Payload, Select(p, m) PROVE NoMenuLost'
  BY <1>10 DEF Select, Comes, Goes
<1> QED BY <1>1, <1>2, <1>3, <1>4, <1>5, <1>6, <1>7, <1>8, <1>9, <1>10 DEF Receive

LEMMA MenuHandlerStep ==
    ASSUME TypeOK, NoMenuLost, NEW p \in Payload, HandlerStep(p)
    PROVE  NoMenuLost'
<1> USE DEF TypeOK, AnswersTypeOK, NoMenuLost, answersVars, replyVars, menuVars, handlerVars,
          Awaiting, Replying, Editing
<1>1. CASE ParseReplied(p)
  BY <1>1 DEF ParseReplied, At, Replied, Acknowledge, ReplyForAWhile, Answer, Reply, GoesOn, Goes
<1>2. CASE ParseFails(p)
  BY <1>2 DEF ParseFails, At, Report, GoesOn, Goes
<1>3. CASE LookedUp(p)
  BY <1>3 DEF LookedUp, At, Found, GoesOn, Goes
<1>4. CASE SelectedLookedUp(p)
  BY <1>4 DEF SelectedLookedUp, At, Found, GoesOn, Goes
<1>5. CASE Searched(p)
  BY <1>5 DEF Searched, At, GoesOn, Goes
<1>6. CASE SearchFails(p)
  BY <1>6 DEF SearchFails, At, Found, Throws, Report, Reporting, Settles, GoesOn,
          Goes
<1>7. CASE Said(p)
  BY <1>7 DEF Said, At, Replied, Acknowledge, ReplyForAWhile, Answer, Reply,
          Settles, GoesOn, Goes
<1>8. CASE SaidForGood(p)
  BY <1>8 DEF SaidForGood, At, Replied, Acknowledge, ReplyStays, Answer, Reply,
          Settles, GoesOn, Goes
<1>9. CASE SaidPlay(p)
  BY <1>9 DEF SaidPlay, At, Replied, Acknowledge, ReplyForAWhile, Answer, Reply,
          GoesOn, Goes
<1>10. CASE SaidMenu(p)
  BY <1>10 DEF SaidMenu, At, Replied, Acknowledge, MenuShown, Settles, GoesOn,
          Goes
<1>11. CASE Fetched(p)
  BY <1>11 DEF Fetched, At, AddToDeleteQueue, Settles, GoesOn, Goes
<1>12. CASE FetchFails(p)
  BY <1>12 DEF FetchFails, At, Throws, Report, Reporting, Settles, GoesOn, Goes
<1>13. CASE Deferred(p)
  BY <1>13 DEF Deferred, At, Acknowledge, GoesOn, Goes
<1>14. CASE Skipped(p)
  BY <1>14 DEF Skipped, At, GoesOn, Goes
<1>15. CASE Played(p)
  BY <1>15 DEF Played, At, Settles, GoesOn, Goes
<1>16. CASE Edited(p)
  BY <1>16 DEF Edited, At, ReplyForAWhile, Answer, Reply, RemoveFromDeleteQueue,
          DropMenus, Settles, GoesOn, Goes
<1>17. CASE EditedForGood(p)
  BY <1>17 DEF EditedForGood, At, ReplyStays, Answer, Reply, Settles, GoesOn, Goes
<1>18. CASE CallFails(p)
  BY <1>18 DEF CallFails, Throws, Report, Reporting, Settles, GoesOn, Goes
<1>19. CASE Deleted(p)
  BY <1>19 DEF Deleted, At, GoesOn, Goes
<1>20. CASE SaidSorry(p)
  BY <1>20 DEF SaidSorry, At, Report, NoReply, ReplyStays, Answer, Reply, GoesOn,
          Goes
<1> QED BY <1>1, <1>2, <1>3, <1>4, <1>5, <1>6, <1>7, <1>8, <1>9, <1>10, <1>11,
      <1>12, <1>13, <1>14, <1>15, <1>16, <1>17, <1>18, <1>19, <1>20 DEF
      HandlerStep

LEMMA MenuStep ==
    ASSUME TypeOK, NoMenuLost, [Next]_vars
    PROVE  NoMenuLost'
<1> USE DEF TypeOK, AnswersTypeOK, NoMenuLost, answersVars, replyVars, menuVars, handlerVars,
          Awaiting, Replying, Editing
<1>1. ASSUME NEW p \in Payload, Receive(p) PROVE NoMenuLost'
  BY <1>1, MenuReceive
<1>2. ASSUME NEW p \in Payload, HandlerStep(p) PROVE NoMenuLost'
  BY <1>2, MenuHandlerStep
<1>3. CASE Login
  BY <1>3 DEF Login
<1>4. CASE LoggedIn
  BY <1>4 DEF LoggedIn
<1>5. CASE Registered
  BY <1>5 DEF Registered
<1>6. ASSUME NEW r \in Payload \X (1..MaxAnswers), Timer(r) PROVE NoMenuLost'
  BY <1>6 DEF Timer, TimerFires
<1>7. ASSUME NEW r \in Payload \X (1..MaxAnswers), TimerRejects(r) PROVE NoMenuLost'
  BY <1>7 DEF TimerRejects, AnswersRestart
<1>8. CASE Moderate
  BY <1>8 DEF Moderate, ReplyDeleted, MenuDeleted
<1>9. CASE UNCHANGED vars
  BY <1>9 DEF vars
<1> QED BY <1>1, <1>2, <1>3, <1>4, <1>5, <1>6, <1>7, <1>8, <1>9 DEF Next

-----------------------------------------------------------------------------

LEMMA CommandsInvInit == Init => CommandsInv
BY DEF Init, AnswersInit, CommandsInv, TypeOK, AnswersTypeOK, HandlersFit, Fits, Fresh,
       NoMenuLost, Awaiting, Replying, Editing, MaxAnswers, MaxReports

LEMMA CommandsInvNext == CommandsInv /\ [Next]_vars => CommandsInv'
BY TypeStep, FitsStep, MenuStep DEF CommandsInv

LEMMA CommandsInductive == Spec => []CommandsInv
BY CommandsInvInit, CommandsInvNext, PTL DEF Spec

\* The handlers keep to their states, and no payload gets more than three answers or
\* causes more than three reports, whatever fails: no handler retries.
THEOREM CommandsType == Spec => []TypeOK
<1>1. CommandsInv => TypeOK
  BY DEF CommandsInv
<1> QED BY <1>1, CommandsInductive, PTL

\* Whatever fails, an interaction is replied to or deferred at most once, and only
\* what was deferred is edited: Discord refuses none of the calls for that.  It
\* takes from Discord that a /play carries the option it is registered with.
THEOREM CommandsAcknowledged == Spec => []AcknowledgedOnce
<1>1. CommandsInv => AcknowledgedOnce
  BY DEF CommandsInv, HandlersFit, Fits, Fresh, AcknowledgedOnce, Replying, Editing
<1> QED BY <1>1, CommandsInductive, PTL

\* A command that has ended gave an answer or was reported.
THEOREM CommandsTold == Spec => []EndsTold
<1>1. CommandsInv => EndsTold
  BY DEF CommandsInv, HandlersFit, Fits, EndsTold, TypeOK, AnswersTypeOK
<1> QED BY <1>1, CommandsInductive, PTL

\* No menu on display is forgotten, however the handlers, /leave, the selections and
\* the moderators interleave.
THEOREM CommandsMenus == Spec => []NoMenuLost
<1>1. CommandsInv => NoMenuLost
  BY DEF CommandsInv
<1> QED BY <1>1, CommandsInductive, PTL

=============================================================================
