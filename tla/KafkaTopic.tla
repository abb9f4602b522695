----------------------------- MODULE KafkaTopic -----------------------------
(***************************************************************************)
(* The topic auth.user.created, from KafkaService.emit in the auth service *)
(* to the consumer group of the notification service.                      *)
(*                                                                         *)
(* The broker and kafkajs are external.  What the code decides is kept:    *)
(* emit counts the message until the client answers, an answer or an error *)
(* counts it off, an error is logged and not retried by the service; the   *)
(* producer is not idempotent, so a send whose answer is lost is appended  *)
(* again; the consumer options leave fromBeginning unset, so a group       *)
(* without a committed offset starts at the end of the topic; the position *)
(* advances when a handler settled, and is committed later.                *)
(***************************************************************************)
EXTENDS Naturals, Sequences

CONSTANTS Event,
          MaxTopic,     \* bound: messages of the topic
          MaxRestarts   \* bound: restarts of the consumer, handler failures included

ASSUME KafkaAssumption == MaxTopic \in Nat /\ MaxRestarts \in Nat

VARIABLES
    pending,    \* events the client has not answered: pendingMessages counts them
    topic,      \* the events the broker holds
    consumer,   \* "down", "idle", or "handling" the message after position, whose
                \* handler has "handled" it when its transaction is committed
    position,   \* messages the running consumer is done with
    offset,     \* messages the group committed; None before the first commit
    failed,     \* messages whose handler's failure KafkaExceptionFilter logged
    missed,     \* history: messages before the place a consumer started at
    restarts    \* history: how often a message may have been delivered again

kafkaVars == <<pending, topic, consumer, position, offset, failed, missed, restarts>>

None == MaxTopic + 1

Messages == 1..Len(topic)

\* The running consumer is never behind the committed offset.
KafkaTypeOK ==
    /\ pending \subseteq Event
    /\ topic \in Seq(Event)
    /\ Len(topic) <= MaxTopic
    /\ consumer \in {"down", "idle", "handling", "handled"}
    /\ position \in 0..Len(topic)
    /\ offset \in 0..Len(topic) \cup {None}
    /\ offset # None => offset <= position
    /\ consumer \in {"handling", "handled"} => position < Len(topic)
    /\ failed \subseteq Messages
    /\ missed \subseteq Messages
    /\ restarts \in 0..MaxRestarts

KafkaInit ==
    /\ pending = {}
    /\ topic = <<>>
    /\ consumer = "down"
    /\ position = 0
    /\ offset = None
    /\ failed = {}
    /\ missed = {}
    /\ restarts = 0

producer == <<pending, topic>>
group    == <<consumer, position, offset, failed, missed, restarts>>

-----------------------------------------------------------------------------
(* KafkaService in the auth service *)

\* emit: the message is handed to the client and counted.
Emit(e) == pending' = pending \cup {e}

\* The broker appends the message; its answer is under way, or lost, and then
\* the client sends the message again.
Appended(e) ==
    /\ e \in pending
    /\ Len(topic) < MaxTopic
    /\ topic' = Append(topic, e)
    /\ UNCHANGED <<pending, group>>

\* subscribe.complete
Answered(e) ==
    /\ e \in pending
    /\ \E i \in Messages : topic[i] = e
    /\ pending' = pending \ {e}
    /\ UNCHANGED <<topic, group>>

\* subscribe.error: logged; the client gave up, whether the broker holds the message
\* or not.
EmitFails(e) ==
    /\ e \in pending
    /\ pending' = pending \ {e}
    /\ UNCHANGED <<topic, group>>

\* The process ends with its unanswered messages.
ProducerCrash == pending' = {}

-----------------------------------------------------------------------------
(* The consumer group of the notification service *)

\* Mutant of Start: every process reads the topic from its beginning.
StartAtBeginning == 0

\* No fromBeginning: a group without an offset starts at the end of the topic.
Start == IF offset = None THEN Len(topic) ELSE offset

Subscribe ==
    /\ consumer = "down"
    /\ consumer' = "idle"
    /\ position' = Start
    /\ missed' = missed \cup (IF offset = None THEN (position + 1)..Len(topic) ELSE {})
    /\ UNCHANGED <<producer, offset, failed, restarts>>

Deliver ==
    /\ consumer = "idle"
    /\ position < Len(topic)
    /\ consumer' = "handling"
    /\ UNCHANGED <<producer, position, offset, failed, missed, restarts>>

\* The handler's transaction is committed.
Handled ==
    /\ consumer = "handling"
    /\ consumer' = "handled"
    /\ UNCHANGED <<producer, position, offset, failed, missed, restarts>>

\* Mutant of Resolved: the message is not resolved.
NotResolved ==
    /\ consumer = "handled"
    /\ consumer' = "idle"
    /\ UNCHANGED <<producer, position, offset, failed, missed, restarts>>

\* The handler settled: the consumer goes on behind its message.
Resolved ==
    /\ consumer = "handled"
    /\ consumer' = "idle"
    /\ position' = position + 1
    /\ UNCHANGED <<producer, offset, failed, missed, restarts>>

\* The handler threw.  Where KafkaExceptionFilter applies it logs the error and
\* returns EMPTY, elsewhere Nest logs it: the client goes on, or delivers the
\* message again.
HandlerFails ==
    /\ consumer \in {"handling", "handled"}
    /\ failed' = failed \cup {position + 1}
    /\ consumer' = "idle"
    /\ \/ position' = position + 1 /\ UNCHANGED restarts
       \/ position' = position /\ restarts < MaxRestarts /\ restarts' = restarts + 1
    /\ UNCHANGED <<producer, offset, missed>>

\* Mutant of CommitOffset: the message being handled is committed with the
\* messages before it.
CommitAhead ==
    /\ consumer # "down"
    /\ offset' = IF consumer \in {"handling", "handled"} THEN position + 1 ELSE position
    /\ UNCHANGED <<producer, consumer, position, failed, missed, restarts>>

\* autoCommit: what is resolved is committed.
CommitOffset ==
    /\ consumer # "down"
    /\ offset' = position
    /\ UNCHANGED <<producer, consumer, position, failed, missed, restarts>>

\* The process ends or the group is rebalanced.
ConsumerCrash ==
    /\ consumer # "down"
    /\ restarts < MaxRestarts
    /\ restarts' = restarts + 1
    /\ consumer' = "down"
    /\ UNCHANGED <<producer, position, offset, failed, missed>>

=============================================================================
