-------------------------- MODULE MCTopicConsumer --------------------------
(* TopicConsumer on small topics: a message is told apart by its key only. *)
EXTENDS TopicConsumer

MCMessage == [key : Keys]
=============================================================================
