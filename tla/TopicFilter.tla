---------------------------- MODULE TopicFilter ----------------------------
(***************************************************************************)
(* Topic filters.  A filter or a topic is the sequence of its fields, what *)
(* split('/') yields, and its length is counted in fields.  A field that   *)
(* holds a wildcard beside other characters is a field of its own kind:    *)
(* what the code asks of it is only where the wildcard is.                 *)
(***************************************************************************)
EXTENDS Integers, Sequences

CONSTANT MAX_TOPIC_LEN

ASSUME TopicLenAssumption == MAX_TOPIC_LEN \in Nat \ {0}

Hashed     == {"#", "a#", "#a"}   \* fields with a '#'
HashedLast == {"#", "a#"}         \* those in which it comes last
Plussed    == {"+", "a+"}         \* fields with a '+'

\* TopicFilter::new(): the error, or "ok".
new(filter) ==
  LET n == Len(filter)
  IN  IF n > MAX_TOPIC_LEN THEN "Overflow"
      ELSE IF filter = <<"">> THEN "BadTopicFilter"
      ELSE IF \/ \E i \in 1..(n - 1) : filter[i] \in Hashed
              \/ filter[n] \in Hashed \ HashedLast
           THEN "BadTopicFilter"
      ELSE "ok"

has_wildcards(filter) ==
  \/ filter[Len(filter)] \in Hashed
  \/ \E i \in DOMAIN filter : filter[i] \in Plussed

\* Mutant: the fields behind the end of the filter are not looked at.
is_matchPrefix(filter, topic) ==
  IF has_wildcards(filter)
  THEN \A i \in DOMAIN filter : \/ i \in DOMAIN topic /\ filter[i] = topic[i]
                                \/ filter[i] \in {"+", "#"}
  ELSE filter = topic

\* The loop over zip_longest() returns false where the fields differ or one of
\* the two has ended, unless a '#' has ended the loop before.
is_match(filter, topic) ==
  LET both     == DOMAIN filter \cap DOMAIN topic
      breaks   == {i \in both : filter[i] = "#"}
      fails(i) == \/ i \notin both
                  \/ i \notin breaks /\ filter[i] \notin {"+", topic[i]}
  IN  IF has_wildcards(filter)
      THEN \A i \in DOMAIN filter \cup DOMAIN topic :
             fails(i) => \E j \in breaks : j < i
      ELSE filter = topic

\* What the doc of TopicFilter says: '+' stands for one field, '#' in the last
\* field for all that follow, at least one.
Matches(filter, topic) ==
  LET n       == Len(filter)
      same(i) == filter[i] \in {"+", topic[i]}
  IN  IF filter[n] = "#"
      THEN Len(topic) >= n /\ \A i \in 1..(n - 1) : same(i)
      ELSE Len(topic) = n /\ \A i \in 1..n : same(i)
=============================================================================
