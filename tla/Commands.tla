------------------------------ MODULE Commands ------------------------------
(***************************************************************************)
(* The command and event handlers of the bot, one payload after another or *)
(* several at once: text commands, slash commands and selections in the    *)
(* menu of a search.  A handler runs to its next await in one step; every  *)
(* call it awaits can fail.  HandleDiscordError reports and swallows what  *)
(* a command throws, and rethrows it from the three handlers of /play,     *)
(* whose errors are thus reported twice.  A deletion scheduled with        *)
(* setTimeout that fails is an unhandled rejection: the process ends and   *)
(* is started again.                                                       *)
(*                                                                         *)
(* What play, skip, leave, empty and shuffle do to the music is PlayMusic; *)
(* here they succeed or throw.  What a search finds is Youtube's choice.   *)
(***************************************************************************)
EXTENDS Answers

CONSTANT Nothing   \* no menu

VARIABLES
    bot,   \* how far the bot has come up
    kind,  \* what the payload is
    pc,    \* the call its handler awaits
    find,  \* what it looks up: a playlist, a video, a search or a selected video
    from   \* the search whose menu it was selected in

handlerVars == <<kind, pc, find, from>>
vars == <<answersVars, bot, handlerVars>>

\* The calls that acknowledge an interaction for the first time, and those that
\* come after it.
Replying == {"say", "sayKeep", "sayPlay", "sayMenu", "defer"}
Editing  == {"edit", "editKeep"}
Awaiting == Replying \cup Editing
            \cup {"parse", "lookup", "play", "skip", "fetch", "delete", "sorry"}

TypeOK ==
    /\ AnswersTypeOK
    /\ bot \in {"down", "login", "register", "deaf", "listening"}
    /\ kind \in [Payload -> {"none", "text", "slash", "select"}]
    /\ pc \in [Payload -> Awaiting \cup {"idle", "done", "ignored", "lost"}]
    /\ find \in [Payload -> {"nothing", "list", "video", "search", "selected"}]
    /\ from \in [Payload -> Payload \cup {Nothing}]

Init ==
    /\ AnswersInit
    /\ bot = "down"
    /\ kind = [p \in Payload |-> "none"]
    /\ pc = [p \in Payload |-> "idle"]
    /\ find = [p \in Payload |-> "nothing"]
    /\ from = [p \in Payload |-> Nothing]

-----------------------------------------------------------------------------
(* Coming up *)

Login ==
    /\ bot = "down"
    /\ bot' = "login"
    /\ UNCHANGED <<answersVars, handlerVars>>

\* DiscordClientAdapter.init swallows a failed login: the commands are registered
\* and the listeners added either way, to a client that hears nothing.
LoggedIn ==
    /\ bot = "login"
    /\ bot' \in {"register", "deaf"}
    /\ UNCHANGED <<answersVars, handlerVars>>

\* The slash commands are put to Discord, then the listeners are added; when the
\* put fails there are none.
Registered ==
    /\ bot = "register"
    /\ bot' \in {"listening", "deaf"}
    /\ UNCHANGED <<answersVars, handlerVars>>

-----------------------------------------------------------------------------
(* Steps of a handler *)

Goes(p, x) == pc' = [pc EXCEPT ![p] = x]

\* The handler goes on to its next await; what it replied before is no matter.
GoesOn(p, x) == Goes(p, x) /\ UNCHANGED <<bot, kind, find, from>>

\* The command has settled: the message of a text command is deleted.
Settles(p) == GoesOn(p, IF kind[p] = "text" THEN "delete" ELSE "done")

\* Mutant of Reporting: only an aspect that lets the error bubble reports it.
ReportingInner(p) == IF find[p] \in {"list", "video", "search"} THEN 1 ELSE 0

\* The aspects a throw passes: that of the command, and before it that of
\* playlistHandler, singleVidHandler or searchHandler.
Reporting(p) == IF find[p] \in {"list", "video", "search"} THEN 2 ELSE 1

\* What the handler awaits throws, and the aspect swallows it.
Throws(p) == Report(p, Reporting(p)) /\ Settles(p)

\* A payload comes, and its handler runs up to the await x.
Comes(p, k, x, f) ==
    /\ bot = "listening"
    /\ pc[p] = "idle"
    /\ kind' = [kind EXCEPT ![p] = k]
    /\ find' = [find EXCEPT ![p] = f]
    /\ Goes(p, x)
    /\ UNCHANGED bot

Command(p, x, f) ==
    /\ \E k \in {"text", "slash"} : Comes(p, k, x, f)
    /\ UNCHANGED from

\* messageCreate and commandHandler: a bot's message, one without the prefix and a
\* command that does not exist are left alone.
Ignore(p) == Command(p, "ignored", "nothing") /\ UNCHANGED answersVars

\* A command without a guild throws before it awaits anything.
NoGuild(p) ==
    /\ Comes(p, "slash", "done", "nothing")
    /\ Report(p, 1)
    /\ UNCHANGED <<from, replyVars, menuVars>>

\* Mutant of MissingInput: the option of the slash command is not required.
MissingInputAny == {"text", "slash"}

\* The commands that may come without an input.  parsePlayCommand would tell a slash
\* command so too, and play reply to it a second time; but /play is registered with
\* its option required, and Discord sends none without it.
MissingInput == {"text"}

\* play: the input is missing, or the caller is in no voice channel or the bot lacks
\* a permission, or the input is looked up.
Play(p) ==
    /\ \/ \E k \in MissingInput : Comes(p, k, "parse", "nothing") /\ UNCHANGED from
       \/ Command(p, "say", "nothing")
       \/ \E f \in {"list", "video", "search"} : Command(p, "lookup", f)
    /\ UNCHANGED answersVars

\* emptyQueue, help, shuffle: they reply, whatever they find.
EmptyQueue(p) == Command(p, "say", "nothing") /\ UNCHANGED answersVars
Help(p)       == Command(p, "say", "nothing") /\ UNCHANGED answersVars
Shuffle(p)    == Command(p, "say", "nothing") /\ UNCHANGED answersVars

\* queue: only the refusal to a caller in no voice channel stays.
Queue(p) ==
    /\ Command(p, "sayKeep", "nothing") \/ Command(p, "say", "nothing")
    /\ UNCHANGED answersVars

\* leave clears the delete queue, unless the caller is in no voice channel.
Leave(p) ==
    /\ Command(p, "say", "nothing")
    /\ UNCHANGED menuVars \/ ClearDeleteQueue
    /\ UNCHANGED <<replyVars, reports>>

\* Mutant of Skip: the reply to an interaction is not deferred first.
SkipUndeferred(p) ==
    /\ Command(p, "say", "nothing") \/ Command(p, "skip", "nothing")
    /\ UNCHANGED answersVars

\* skip refuses a caller in no voice channel; the reply to an interaction is
\* deferred first.
Skip(p) ==
    /\ \/ Command(p, "say", "nothing")
       \/ Comes(p, "slash", "defer", "nothing") /\ UNCHANGED from
       \/ Comes(p, "text", "skip", "nothing") /\ UNCHANGED from
    /\ UNCHANGED answersVars

\* selectMenuHandler: a selection in a menu that is on display, from a member who
\* may be in no voice channel.
Select(p, m) ==
    /\ m \in menus
    /\ from' = [from EXCEPT ![p] = m]
    /\ Comes(p, "select", "sayKeep", "selected") \/ Comes(p, "select", "defer", "selected")
    /\ UNCHANGED answersVars

-----------------------------------------------------------------------------
(* What a handler awaits comes or fails. *)

At(p, x) == bot = "listening" /\ pc[p] = x

\* A first reply acknowledges an interaction.
Replied(p) == Acknowledge(p, IF kind[p] = "text" THEN "none" ELSE "replied")

\* parsePlayCommand told that the input is missing, or failed to: play replies
\* again, that the caller must be in a voice channel.
ParseReplied(p) ==
    /\ At(p, "parse")
    /\ Replied(p)
    /\ ReplyForAWhile(p)
    /\ UNCHANGED <<menuVars, reports>>
    /\ GoesOn(p, "say")

ParseFails(p) ==
    /\ At(p, "parse")
    /\ Report(p, 1)
    /\ UNCHANGED <<replyVars, menuVars>>
    /\ GoesOn(p, "say")

\* What YoutubeSearchAdapter answers: a video or a list that cannot be had is as
\* if there were none, a search that fails rejects.
Found(f) == IF f = "search" THEN {"found", "rejected"} ELSE {"found", "none"}

\* getPlaylist, getByUrl
LookedUp(p) ==
    /\ At(p, "lookup")
    /\ find[p] \in {"list", "video"}
    /\ \E a \in Found(find[p]) : GoesOn(p, IF a = "found" THEN "sayPlay" ELSE "say")
    /\ UNCHANGED answersVars

\* The selected video
SelectedLookedUp(p) ==
    /\ At(p, "lookup")
    /\ find[p] = "selected"
    /\ \E a \in Found("selected") : GoesOn(p, IF a = "found" THEN "play" ELSE "editKeep")
    /\ UNCHANGED answersVars

\* searchByQuery: the menu is of whatever it finds.
Searched(p) ==
    /\ At(p, "lookup")
    /\ find[p] = "search"
    /\ "found" \in Found("search")
    /\ GoesOn(p, "sayMenu")
    /\ UNCHANGED answersVars

SearchFails(p) ==
    /\ At(p, "lookup")
    /\ "rejected" \in Found(find[p])
    /\ Throws(p)
    /\ UNCHANGED <<replyVars, menuVars>>

\* The last reply of a handler.
Said(p) ==
    /\ At(p, "say")
    /\ Replied(p)
    /\ ReplyForAWhile(p)
    /\ UNCHANGED <<menuVars, reports>>
    /\ Settles(p)

SaidForGood(p) ==
    /\ At(p, "sayKeep")
    /\ Replied(p)
    /\ ReplyStays(p)
    /\ UNCHANGED <<menuVars, reports>>
    /\ Settles(p)

\* The reply that the song or the list is queued comes before it is played.
SaidPlay(p) ==
    /\ At(p, "sayPlay")
    /\ Replied(p)
    /\ ReplyForAWhile(p)
    /\ UNCHANGED <<menuVars, reports>>
    /\ GoesOn(p, "play")

\* The reply to a text command is the message itself, that to an interaction has
\* to be fetched.
SaidMenu(p) ==
    /\ At(p, "sayMenu")
    /\ Replied(p)
    /\ answers' = [answers EXCEPT ![p] = @ + 1]
    /\ MenuShown(p)
    /\ UNCHANGED <<replies, timers, strays, reports>>
    /\ IF kind[p] = "text"
       THEN tracked' = tracked \cup {p} /\ Settles(p)
       ELSE UNCHANGED tracked /\ GoesOn(p, "fetch")

Fetched(p) ==
    /\ At(p, "fetch")
    /\ AddToDeleteQueue(p)
    /\ UNCHANGED <<replyVars, reports>>
    /\ Settles(p)

\* A menu without an option, of a search that found nothing, is refused: CallFails.
\* A menu that cannot be fetched is on display and nobody knows it.
FetchFails(p) ==
    /\ At(p, "fetch")
    /\ strays' = strays \cup {p}
    /\ UNCHANGED <<replyVars, menus, tracked>>
    /\ Throws(p)

Deferred(p) ==
    /\ At(p, "defer")
    /\ Acknowledge(p, "deferred")
    /\ UNCHANGED <<answers, replies, timers, menuVars, reports>>
    /\ GoesOn(p, IF find[p] = "selected" THEN "lookup" ELSE "skip")

\* skip of PlayMusicUseCase
Skipped(p) ==
    /\ At(p, "skip")
    /\ UNCHANGED answersVars
    /\ GoesOn(p, IF kind[p] = "slash" THEN "edit" ELSE "say")

\* play of PlayMusicUseCase
Played(p) ==
    /\ At(p, "play")
    /\ UNCHANGED answersVars
    /\ IF find[p] = "selected" THEN GoesOn(p, "edit") ELSE Settles(p)

\* A deferred reply is written; a selection also drops its menu.
Edited(p) ==
    /\ At(p, "edit")
    /\ UNCHANGED <<ack, reports>>
    /\ ReplyForAWhile(p)
    /\ IF find[p] = "selected" THEN RemoveFromDeleteQueue(from[p]) ELSE UNCHANGED menuVars
    /\ Settles(p)

EditedForGood(p) ==
    /\ At(p, "editKeep")
    /\ UNCHANGED <<ack, menuVars, reports>>
    /\ ReplyStays(p)
    /\ Settles(p)

\* A call to Discord or to PlayMusicUseCase throws.  Between the deferral and the
\* skip the caller may also have left the voice channel.
CallFails(p) ==
    /\ bot = "listening"
    /\ pc[p] \in Replying \cup Editing \cup {"skip", "play"}
    /\ Throws(p)
    /\ UNCHANGED <<replyVars, menuVars>>

\* messageCreate deletes the message of a command that has settled.
Deleted(p) ==
    /\ At(p, "delete")
    /\ GoesOn(p, "done") \/ GoesOn(p, "sorry")
    /\ UNCHANGED answersVars

\* Mutant of SaidSorry: it is said until it works.
SaidSorryAgain(p) ==
    /\ At(p, "sorry")
    /\ Report(p, 1)
    /\ UNCHANGED <<replyVars, menuVars>>
    /\ GoesOn(p, "sorry")

\* When it cannot, it says that the command failed, whether or not it did, and
\* throws.
SaidSorry(p) ==
    /\ At(p, "sorry")
    /\ Report(p, 1)
    /\ NoReply \/ (ReplyStays(p) /\ UNCHANGED ack)
    /\ UNCHANGED menuVars
    /\ GoesOn(p, "done")

-----------------------------------------------------------------------------
(* Timers and the process *)

Timer(r) ==
    /\ bot = "listening"
    /\ TimerFires(r)
    /\ UNCHANGED <<bot, handlerVars>>

\* msg.delete() fails, for one because the reply is gone: the rejection ends the
\* process.
TimerRejects(r) ==
    /\ bot = "listening"
    /\ r \in timers
    /\ AnswersRestart
    /\ bot' = "down"
    /\ pc' = [p \in Payload |-> IF pc[p] \in Awaiting THEN "lost" ELSE pc[p]]
    /\ UNCHANGED <<kind, find, from>>

Moderate ==
    /\ \/ \E r \in replies : ReplyDeleted(r)
       \/ \E p \in menus : MenuDeleted(p)
    /\ UNCHANGED <<bot, handlerVars>>

Receive(p) ==
    \/ Ignore(p) \/ NoGuild(p) \/ Play(p) \/ EmptyQueue(p) \/ Help(p) \/ Shuffle(p)
    \/ Queue(p) \/ Leave(p) \/ Skip(p) \/ \E m \in Payload : Select(p, m)

HandlerStep(p) ==
    \/ ParseReplied(p) \/ ParseFails(p) \/ LookedUp(p) \/ SelectedLookedUp(p)
    \/ Searched(p) \/ SearchFails(p)
    \/ Said(p) \/ SaidForGood(p) \/ SaidPlay(p) \/ SaidMenu(p)
    \/ Fetched(p) \/ FetchFails(p) \/ Deferred(p) \/ Skipped(p) \/ Played(p)
    \/ Edited(p) \/ EditedForGood(p) \/ CallFails(p) \/ Deleted(p) \/ SaidSorry(p)

Next ==
    \/ Login \/ LoggedIn \/ Registered
    \/ \E p \in Payload : Receive(p) \/ HandlerStep(p)
    \/ \E r \in Payload \X (1..MaxAnswers) : Timer(r) \/ TimerRejects(r)
    \/ Moderate

Spec == Init /\ [][Next]_vars

-----------------------------------------------------------------------------

\* An interaction is acknowledged once: a handler replies to it only when nothing
\* was replied or deferred, edits only what it deferred, and fetches only its own
\* reply.  Anything else Discord refuses, and the user sees no answer.  It rests on
\* MissingInput: without an input /play would be replied to twice.
AcknowledgedOnce ==
    \A p \in Payload : kind[p] \in {"slash", "select"} =>
        /\ pc[p] \in Replying => ack[p] = "none"
        /\ pc[p] \in Editing => ack[p] = "deferred"
        /\ pc[p] = "fetch" => ack[p] = "replied"

\* No command goes by unnoticed: one that has ended gave an answer or was reported
\* with ErrorOccurred, through every nesting of the aspect.
EndsTold == \A p \in Payload : pc[p] = "done" => answers[p] > 0 \/ reports[p] > 0

\* A menu on display is in the delete queue, so /leave removes it, or its search is
\* still to put it there, unless Discord failed to delete or to return it or the
\* process was restarted meanwhile.
NoMenuLost == \A p \in menus : p \in tracked \cup strays \/ pc[p] = "fetch"

=============================================================================
