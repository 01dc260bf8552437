-------------------------- MODULE TopicMatchProofs --------------------------
(***************************************************************************)
(* The loop of topic_matches returns what the relation Selects says, for   *)
(* patterns and topics of any length over any levels, unless the topic     *)
(* ends where the pattern has a #.                                         *)
(***************************************************************************)
EXTENDS TopicMatch, TLAPS

IInv == TypeOK /\ LoopInv /\ ResultIsSelects

\* The length of a sequence is a natural number.
LEMMA LenType == ASSUME NEW s \in Seq(Level) PROVE Len(s) \in Nat
  OBVIOUS

\* The arguments are non-empty sequences.
LEMMA Arguments ==
  ASSUME TypeOK
  PROVE  /\ pattern \in Seq(Level) /\ Len(pattern) \in Nat
         /\ topic \in Seq(Level) /\ Len(topic) \in Nat
<1>1. pattern \in Seq(Level) /\ topic \in Seq(Level)
  BY LevelAssumption, Zenon DEF TypeOK
<1>2. QED
  BY <1>1, LenType

\* One more matching level extends a matching prefix.
LEMMA PrefixGrows ==
  ASSUME NEW p, NEW t, NEW n \in Nat, PrefixMatches(p, t, n),
         p[n + 1] # Hash, LevelMatches(p[n + 1], t[n + 1])
  PROVE  PrefixMatches(p, t, n + 1)
  BY DEF PrefixMatches

\* A level that is not # and does not match rules the pattern out.
LEMMA MismatchIsFinal ==
  ASSUME TypeOK, LoopInv, InLoop, Pat \notin {Hash, Plus, Part}
  PROVE  ~Selects(pattern, topic)
<1>1. /\ pi \in Nat /\ pi = ti /\ pi < Len(pattern) /\ pi < Len(topic)
      /\ Len(pattern) \in Nat /\ Len(topic) \in Nat
  BY Arguments DEF TypeOK, LoopInv, InLoop
<1>2. pattern[pi + 1] # Hash /\ ~LevelMatches(pattern[pi + 1], topic[pi + 1])
  BY <1>1 DEF Pat, Part, LevelMatches
<1>3. ASSUME NEW n \in Nat, n > pi PROVE ~PrefixMatches(pattern, topic, n)
  BY <1>1, <1>2, <1>3 DEF PrefixMatches
<1>4. ASSUME NEW h \in 1..Len(pattern), pattern[h] = Hash
      PROVE  ~PrefixMatches(pattern, topic, h - 1)
  <2>1. CASE h <= pi
    BY <1>1, <1>4, <2>1 DEF LoopInv, PrefixMatches
  <2>2. CASE h = pi + 1
    BY <1>2, <1>4, <2>2
  <2>3. CASE h > pi + 1
    BY <1>1, <1>3, <2>3
  <2>4. QED
    BY <1>1, <2>1, <2>2, <2>3
<1>5. QED
  BY <1>1, <1>3, <1>4 DEF Selects

\* Once one of the two is exhausted, only the lengths are left to compare,
\* unless a # is left.
LEMMA ExhaustedIsFinal ==
  ASSUME TypeOK, LoopInv, result = "running", ~InLoop
  PROVE  /\ pi = Len(pattern) /\ ti = Len(topic) => Selects(pattern, topic)
         /\ Selects(pattern, topic) =>
              \/ pi = Len(pattern) /\ ti = Len(topic)
              \/ HashIsLeft(pattern, topic)
<1>1. /\ pi \in Nat /\ pi = ti /\ pi <= Len(pattern) /\ pi <= Len(topic)
      /\ Len(pattern) \in Nat /\ Len(topic) \in Nat
      /\ pi = Len(pattern) \/ pi = Len(topic)
      /\ PrefixMatches(pattern, topic, pi)
  BY Arguments DEF TypeOK, LoopInv, InLoop
<1>2. ASSUME NEW h \in 1..Len(pattern), h <= Len(topic) + 1, ~HashIsLeft(pattern, topic)
      PROVE  pattern[h] # Hash
  <2>1. CASE h <= pi
    BY <1>1, <2>1 DEF PrefixMatches
  <2>2. CASE h > pi
    BY <1>1, <1>2, <2>2 DEF HashIsLeft
  <2>3. QED
    BY <1>1, <2>1, <2>2
<1>3. QED
  BY <1>1, <1>2 DEF Selects

\* What the loop invariant says in terms of lengths.
LEMMA LoopFacts ==
  ASSUME TypeOK, LoopInv
  PROVE  /\ pi \in Nat /\ pi = ti /\ pi <= Len(pattern) /\ pi <= Len(topic)
         /\ Len(pattern) \in Nat /\ Len(topic) \in Nat
         /\ PrefixMatches(pattern, topic, pi)
<1>1. PrefixMatches(pattern, topic, pi) /\ pi = ti
  BY DEF LoopInv
<1>2. Len(pattern) \in Nat /\ Len(topic) \in Nat
  BY Arguments
<1>3. pi \in 0..Len(pattern) /\ ti \in 0..Len(topic)
  BY DEF TypeOK
<1>4. QED
  BY <1>1, <1>2, <1>3

\* The invariant holds at the start.
LEMMA LoopInit == Init => IInv
<1> SUFFICES ASSUME Init PROVE IInv
  OBVIOUS
<1>1. /\ pattern \in Seq(Level) /\ Len(pattern) \in Nat
      /\ topic \in Seq(Level) /\ Len(topic) \in Nat
  <2>1. pattern \in Seq(Level) /\ topic \in Seq(Level)
    BY LevelAssumption, Zenon DEF Init
  <2>2. QED
    BY <2>1, LenType
<1>2. QED
  BY <1>1 DEF Init, IInv, TypeOK, LoopInv, ResultIsSelects, PrefixMatches

\* Each step of the loop keeps the invariant.
LEMMA LoopNext == IInv /\ [Next]_vars => IInv'
<1> SUFFICES ASSUME IInv, [Next]_vars PROVE IInv'
  OBVIOUS
<1> USE DEF IInv
<1>a. /\ pi \in Nat /\ pi = ti /\ pi <= Len(pattern) /\ pi <= Len(topic)
      /\ Len(pattern) \in Nat /\ Len(topic) \in Nat
      /\ PrefixMatches(pattern, topic, pi)
  BY LoopFacts
<1>1. CASE MatchRest
  <2>1. Selects(pattern, topic)
    <3>1. pi + 1 \in 1..Len(pattern) /\ pi + 1 <= Len(topic) + 1
          /\ pattern[pi + 1] = Hash
      BY <1>1, <1>a DEF MatchRest, InLoop, Pat
    <3>2. PrefixMatches(pattern, topic, (pi + 1) - 1)
      BY <1>a
    <3>3. QED
      BY <3>1, <3>2 DEF Selects
  <2>2. QED
    BY <1>1, <2>1 DEF MatchRest, TypeOK, LoopInv, ResultIsSelects
<1>2. CASE MatchLevel
  <2>1. PrefixMatches(pattern, topic, pi + 1)
    <3>1. pattern[pi + 1] # Hash /\ LevelMatches(pattern[pi + 1], topic[pi + 1])
      BY <1>2, <1>a DEF MatchLevel, Pat, Part, LevelMatches
    <3>2. QED
      BY <1>a, <3>1, PrefixGrows
  <2>2. pi + 1 \in 0..Len(pattern) /\ ti + 1 \in 0..Len(topic)
    BY <1>2, <1>a DEF MatchLevel, InLoop
  <2>3. QED
    BY <1>2, <1>a, <2>1, <2>2
       DEF MatchLevel, InLoop, TypeOK, LoopInv, ResultIsSelects
<1>3. CASE Mismatch
  <2>1. ~Selects(pattern, topic)
    BY <1>3, MismatchIsFinal DEF Mismatch
  <2>2. QED
    BY <1>3, <2>1 DEF Mismatch, TypeOK, LoopInv, ResultIsSelects
<1>4. CASE Exhausted
  <2>1. /\ pi = Len(pattern) /\ ti = Len(topic) => Selects(pattern, topic)
        /\ Selects(pattern, topic) =>
             (pi = Len(pattern) /\ ti = Len(topic)) \/ HashIsLeft(pattern, topic)
    BY <1>4, ExhaustedIsFinal DEF Exhausted
  <2>2. QED
    BY <1>4, <2>1 DEF Exhausted, TypeOK, LoopInv, ResultIsSelects
<1>5. CASE UNCHANGED vars
  BY <1>5 DEF vars, TypeOK, LoopInv, ResultIsSelects
<1>6. QED
  BY <1>1, <1>2, <1>3, <1>4, <1>5 DEF Next

\* Every state of the loop is well typed.
THEOREM LoopTypeCorrect == Spec => []TypeOK
<1>1. IInv => TypeOK
  BY DEF IInv
<1>2. QED
  BY <1>1, LoopInit, LoopNext, PTL DEF Spec

\* As many levels are consumed of the pattern as of the topic, all matching.
THEOREM LoopInvariant == Spec => []LoopInv
<1>1. IInv => LoopInv
  BY DEF IInv
<1>2. QED
  BY <1>1, LoopInit, LoopNext, PTL DEF Spec

\* What topic_matches returns is what the comments ask for, for every pattern
\* and every topic, but where the topic ends and the pattern has a #.
THEOREM LoopIsSelects == Spec => []ResultIsSelects
<1>1. IInv => ResultIsSelects
  BY DEF IInv
<1>2. QED
  BY <1>1, LoopInit, LoopNext, PTL DEF Spec
=============================================================================
