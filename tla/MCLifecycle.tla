---------------------------- MODULE MCLifecycle ----------------------------
(* The connections of the notification service, and of the bot, in the order   *)
(* of their onModuleInit: the global module of Kafka, the cache's, the root.   *)
EXTENDS Lifecycle

CONSTANTS db, kafka, redis

NotificationModules == <<kafka, redis, db>>

=============================================================================
