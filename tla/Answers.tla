------------------------------ MODULE Answers ------------------------------
(***************************************************************************)
(* What a payload of Discord, a message or an interaction, gets back: the  *)
(* replies on display with the timers that delete them, the interactions   *)
(* that are acknowledged, the menus of searches with the delete queue that *)
(* GuildInfraStateManager keeps of them, and the errors HandleDiscordError *)
(* reports.  Discord refuses a second reply to an interaction, and a call  *)
(* to it can fail at any time.                                             *)
(***************************************************************************)
EXTENDS Naturals, FiniteSets

CONSTANT Payload

VARIABLES
    ack,      \* whether an interaction is replied to or deferred
    answers,  \* how many answers the payload got
    replies,  \* replies on display, named by payload and number
    timers,   \* replies whose deletion is scheduled
    menus,    \* payloads whose search menu is on display
    tracked,  \* deleteQueue, by the payload of the search
    strays,   \* history: menus nothing will delete any more
    reports   \* how many ErrorOccurred events the payload caused

replyVars   == <<ack, answers, replies, timers>>
menuVars    == <<menus, tracked, strays>>
answersVars == <<replyVars, menuVars, reports>>

MaxAnswers == 3
MaxReports == 3

AnswersTypeOK ==
    /\ ack \in [Payload -> {"none", "replied", "deferred"}]
    /\ answers \in [Payload -> 0..MaxAnswers]
    /\ replies \subseteq Payload \X (1..MaxAnswers)
    /\ timers \subseteq Payload \X (1..MaxAnswers)
    /\ menus \subseteq Payload
    /\ tracked \subseteq Payload
    /\ strays \subseteq Payload
    /\ reports \in [Payload -> 0..MaxReports]

AnswersInit ==
    /\ ack = [p \in Payload |-> "none"]
    /\ answers = [p \in Payload |-> 0]
    /\ replies = {}
    /\ timers = {}
    /\ menus = {}
    /\ tracked = {}
    /\ strays = {}
    /\ reports = [p \in Payload |-> 0]

Acknowledge(p, a) == ack' = [ack EXCEPT ![p] = a]

\* The reply of p that is on its way.
Reply(p) == <<p, answers[p] + 1>>

Answer(p) ==
    /\ answers' = [answers EXCEPT ![p] = @ + 1]
    /\ replies' = replies \cup {Reply(p)}

\* A reply that stays.
ReplyStays(p) == Answer(p) /\ UNCHANGED timers

\* setTimeout(() => msg.delete(), messageDeleteTimeout)
ReplyForAWhile(p) == Answer(p) /\ timers' = timers \cup {Reply(p)}

NoReply == UNCHANGED <<ack, answers, replies, timers>>

\* ErrorOccurred, from n aspects around the method that threw
Report(p, n) == reports' = [reports EXCEPT ![p] = @ + n]

-----------------------------------------------------------------------------
(* The delete queue *)

MenuShown(p) == menus' = menus \cup {p}

\* Mutant of AddToDeleteQueue: one menu is kept, as for the now-playing message.
KeepLastMenu(p) ==
    /\ tracked' = {p}
    /\ UNCHANGED <<menus, strays>>

AddToDeleteQueue(p) ==
    /\ tracked' = tracked \cup {p}
    /\ UNCHANGED <<menus, strays>>

\* What is dropped from the queue is deleted, unless Discord fails: then it stays
\* on display and nobody knows it.
DropMenus(ps) ==
    /\ tracked' = tracked \ ps
    /\ \E failed \in SUBSET (ps \cap tracked \cap menus) :
          /\ menus' = menus \ ((ps \cap tracked) \ failed)
          /\ strays' = strays \cup failed

RemoveFromDeleteQueue(m) == DropMenus({m})

\* clearDeleteQueue and cleanup
ClearDeleteQueue == DropMenus(Payload)

-----------------------------------------------------------------------------
(* Timers *)

TimerFires(r) ==
    /\ r \in timers
    /\ r \in replies
    /\ timers' = timers \ {r}
    /\ replies' = replies \ {r}
    /\ UNCHANGED <<ack, answers, menuVars, reports>>

\* Somebody deletes a reply by hand.
ReplyDeleted(r) ==
    /\ r \in replies
    /\ replies' = replies \ {r}
    /\ UNCHANGED <<ack, answers, timers, menuVars, reports>>

MenuDeleted(p) ==
    /\ p \in menus
    /\ menus' = menus \ {p}
    /\ UNCHANGED <<replyVars, tracked, strays, reports>>

\* The timers and the delete queue go with the process, the messages stay.
AnswersRestart ==
    /\ timers' = {}
    /\ tracked' = {}
    /\ strays' = strays \cup menus
    /\ UNCHANGED <<ack, answers, replies, menus, reports>>

=============================================================================
