----------------------------- MODULE TopicMatch -----------------------------
(***************************************************************************)
(* topic_matches (src/cluster/retained.rs): the loop that decides whether  *)
(* a subscription pattern selects a topic.  Both strings have been split   *)
(* at '/', so they are non-empty sequences of levels.                      *)
(***************************************************************************)
EXTENDS Integers, Sequences

CONSTANTS
  Level,     \* the strings that occur between the slashes
  Plus,      \* "+", any one level
  Hash,      \* "#", all remaining levels
  Patterns,  \* the patterns asked for
  Topics     \* the topics retained

ASSUME LevelAssumption ==
  /\ {Plus, Hash} \subseteq Level
  /\ Plus # Hash
  /\ Patterns \subseteq Seq(Level) \ {<<>>}
  /\ Topics \subseteq Seq(Level) \ {<<>>}

VARIABLES
  pattern, topic,  \* the arguments
  pi, ti,          \* number of levels consumed of each
  result           \* "running", "match" or "no match"

vars == <<pattern, topic, pi, ti, result>>

Init ==
  /\ pattern \in Patterns
  /\ topic \in Topics
  /\ pi = 0
  /\ ti = 0
  /\ result = "running"

\* The loop condition, and the two levels the body looks at.
InLoop == result = "running" /\ pi < Len(pattern) /\ ti < Len(topic)
Pat == pattern[pi + 1]
Part == topic[ti + 1]

MatchRest ==
  /\ InLoop
  /\ Pat = Hash
  /\ result' = "match"
  /\ UNCHANGED <<pattern, topic, pi, ti>>

\* Mutants: + consumes two levels of the pattern; + consumes nothing at all.
MatchLevel_PlusSkips ==
  /\ InLoop
  /\ Pat # Hash
  /\ Pat = Plus \/ Pat = Part
  /\ pi' = IF Pat = Plus THEN pi + 2 ELSE pi + 1
  /\ ti' = ti + 1
  /\ UNCHANGED <<pattern, topic, result>>

MatchLevel_PlusStays ==
  /\ InLoop
  /\ Pat # Hash
  /\ Pat = Plus \/ Pat = Part
  /\ pi' = IF Pat = Plus THEN pi ELSE pi + 1
  /\ ti' = IF Pat = Plus THEN ti ELSE ti + 1
  /\ UNCHANGED <<pattern, topic, result>>

MatchLevel ==
  /\ InLoop
  /\ Pat # Hash
  /\ Pat = Plus \/ Pat = Part
  /\ pi' = pi + 1
  /\ ti' = ti + 1
  /\ UNCHANGED <<pattern, topic, result>>

Mismatch ==
  /\ InLoop
  /\ Pat \notin {Hash, Plus, Part}
  /\ result' = "no match"
  /\ UNCHANGED <<pattern, topic, pi, ti>>

\* Mutant: it is enough that one of the two is exhausted.
Exhausted_Either ==
  /\ result = "running"
  /\ ~InLoop
  /\ result' = IF pi = Len(pattern) \/ ti = Len(topic) THEN "match" ELSE "no match"
  /\ UNCHANGED <<pattern, topic, pi, ti>>

Exhausted ==
  /\ result = "running"
  /\ ~InLoop
  /\ result' = IF pi = Len(pattern) /\ ti = Len(topic) THEN "match" ELSE "no match"
  /\ UNCHANGED <<pattern, topic, pi, ti>>

Next == MatchRest \/ MatchLevel \/ Mismatch \/ Exhausted

Spec == Init /\ [][Next]_vars
FairSpec == Spec /\ WF_vars(Next)

-----------------------------------------------------------------------------
(* The relation the loop computes, without a loop.                         *)

LevelMatches(p, l) == p = Plus \/ p = l

\* The first n levels of p contain no # and match those of t one by one.
PrefixMatches(p, t, n) ==
  \A i \in 1..n : p[i] # Hash /\ LevelMatches(p[i], t[i])

\* What the comments ask for: either all levels match one by one, or those
\* before a # do, which "matches everything from here" (retained.rs:124), the
\* end of the topic included ("unless pattern ended with #", retained.rs:139).
Selects(p, t) ==
  \/ Len(p) = Len(t) /\ PrefixMatches(p, t, Len(p))
  \/ \E h \in 1..Len(p) : p[h] = Hash /\ h <= Len(t) + 1 /\ PrefixMatches(p, t, h - 1)

\* The topic ends where the pattern has a #, as foo does for foo/#.
HashIsLeft(p, t) == Len(t) < Len(p) /\ p[Len(t) + 1] = Hash

\* Type correctness of the loop's variables.
TypeOK ==
  /\ pattern \in Patterns
  /\ topic \in Topics
  /\ pi \in 0..Len(pattern)
  /\ ti \in 0..Len(topic)
  /\ result \in {"running", "match", "no match"}

\* The loop invariant: as many levels consumed of one as of the other, all of
\* them matching.
LoopInv == pi = ti /\ PrefixMatches(pattern, topic, pi)

\* The loop selects nothing it should not, and refuses a topic only rightly or
\* because the topic ends where the pattern has a #: there the code refuses
\* what the comment at retained.rs:139 would select.
ResultIsSelects ==
  /\ result = "match" => Selects(pattern, topic)
  /\ result = "no match" /\ ~HashIsLeft(pattern, topic) => ~Selects(pattern, topic)

\* The loop returns.
Terminates == <>(result # "running")
=============================================================================
