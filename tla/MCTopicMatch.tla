---------------------------- MODULE MCTopicMatch ----------------------------
(* All patterns and topics of up to MaxLevels levels.                      *)
EXTENDS TopicMatch

CONSTANT MaxLevels  \* bound: levels of a pattern or topic

AllLevels == UNION {[1..k -> Level] : k \in 1..MaxLevels}
=============================================================================
