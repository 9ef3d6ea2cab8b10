-------------------------- MODULE MCSubscriptions --------------------------
(* Subscriptions on a small instance. *)
EXTENDS Subscriptions

MCHandles == {"g", "h"}

\* "a/b/c" is longer than MAX_TOPIC_LEN fields: the broker accepts it and
\* TopicFilter::new() does not.
MCFilterSets ==
  [i \in MCHandles |->
     CASE i = "g" -> {{<<"a", "+">>}}
       [] i = "h" -> {{<<"a", "+">>}, {<<"a", "+">>, <<"a", "b", "c">>}}]

MCTopics == {<<"a", "b">>, <<"a", "b", "c">>}
=============================================================================
