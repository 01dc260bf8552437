-------------------------- MODULE NodeProcessProofs --------------------------
(***************************************************************************)
(* Proofs about NodeProcess for any configuration and any number of        *)
(* clients, publications and batches.                                      *)
(***************************************************************************)
EXTENDS NodeProcess, TLAPS

\* Type correctness needs the counters to be exact: they are added to without
\* a bound, and stay within one because they add up to what was published.
IInv == TypeOK /\ CountersAreExact

\* Counts are natural numbers.
LEMMA CountsAreNumbers ==
  ASSUME NEW counts \in Counts, NEW o \in Outcome
  PROVE  counts[o] \in 0..MaxPublishes /\ counts[o] \in Nat
  BY ProcessAssumption DEF Counts

\* The empty counts are counts, and a batch of what is pending is a batch.
LEMMA Batches ==
  ASSUME TypeOK
  PROVE  /\ NoCounts \in Counts
         /\ [connections |-> connections, subscriptions |-> subscriptions,
             publishes |-> pending] \in Meters
<1>1. 0 \in 0..MaxPublishes
  BY ProcessAssumption
<1>2. NoCounts \in Counts
  BY <1>1 DEF NoCounts, Counts
<1>3. QED
  BY <1>2 DEF TypeOK, Meters

\* The initial state satisfies the invariant.
LEMMA InitInv == Init => IInv
<1> SUFFICES ASSUME Init PROVE IInv
  OBVIOUS
<1>1. 0 \in 0..MaxPublishes /\ 0 \in 0..MaxClients
  BY ProcessAssumption
<1>2. NoCounts \in Counts
  BY <1>1 DEF NoCounts, Counts
<1>3. link \in Seq(Meters) /\ Len(link) = 0 /\ Len(link) <= MaxQueue
  BY ProcessAssumption DEF Init
<1>4. metrics \in Meters
  BY <1>1, <1>2 DEF Init, Meters
<1>5. TypeOK
  BY <1>1, <1>2, <1>3, <1>4 DEF Init, TypeOK, Stage
<1>6. ASSUME NEW o \in Outcome
      PROVE  \E shown \in [0..Len(link) -> 0..MaxPublishes] :
               WillShow(o, shown) /\ shown[Len(link)] + pending[o] = published[o]
  <2> DEFINE shown == [k \in 0..Len(link) |-> 0]
  <2>1. shown \in [0..Len(link) -> 0..MaxPublishes] /\ shown[0] = 0
    BY <1>1, <1>3
  <2>2. metrics.publishes[o] = 0 /\ pending[o] = 0 /\ published[o] = 0
    BY DEF Init, NoCounts
  <2>3. WillShow(o, shown)
    BY <1>3, <2>1, <2>2 DEF WillShow
  <2>4. QED
    BY <1>3, <2>1, <2>2, <2>3
<1>7. QED
  BY <1>5, <1>6 DEF IInv, CountersAreExact

\* A step that touches neither counters nor channel keeps them exact.
LEMMA SameCounters ==
  ASSUME CountersAreExact, UNCHANGED <<published, pending, link, metrics>>
  PROVE  CountersAreExact'
  BY DEF CountersAreExact, WillShow

\* What is pending of an outcome has been published.
LEMMA PendingIsPublished ==
  ASSUME IInv, NEW o \in Outcome
  PROVE  /\ pending[o] \in Nat /\ published[o] \in Nat /\ pending[o] <= published[o]
         /\ published[o] <= MaxPublishes /\ MaxPublishes \in Nat
<1>1. PICK shown \in [0..Len(link) -> 0..MaxPublishes] :
             shown[Len(link)] + pending[o] = published[o]
  BY DEF IInv, CountersAreExact
<1>2. Len(link) \in Nat
  BY DEF IInv, TypeOK
<1>3. shown[Len(link)] \in Nat
  BY <1>1, <1>2, ProcessAssumption
<1>4. pending \in Counts /\ published \in Counts
  BY DEF IInv, TypeOK
<1>5. QED
  BY <1>1, <1>3, <1>4, CountsAreNumbers, ProcessAssumption

\* A publication is one more pending and one more published.
LEMMA PublishKeepsInv ==
  ASSUME IInv, NEW o \in Outcome, Publish(o)
  PROVE  IInv'
<1>0. published \in [Outcome -> 0..MaxPublishes] /\ pending \in [Outcome -> 0..MaxPublishes]
      /\ Len(link) \in Nat
  BY DEF IInv, TypeOK, Counts
<1>1. /\ published' = [published EXCEPT ![o] = published[o] + 1]
      /\ pending' = [pending EXCEPT ![o] = pending[o] + 1]
      /\ UNCHANGED <<process, broker, connections, subscriptions, link, metrics>>
  BY DEF Publish
<1>2. published[o] + 1 <= MaxPublishes
  <2>1. published["received"] + published["failed"] < MaxPublishes
    BY DEF Publish
  <2>2. published["received"] \in Nat /\ published["failed"] \in Nat /\ MaxPublishes \in Nat
    BY PendingIsPublished DEF Outcome
  <2>3. QED
    BY <2>1, <2>2 DEF Outcome
<1>3. published[o] + 1 \in 0..MaxPublishes /\ pending[o] + 1 \in 0..MaxPublishes
  BY <1>2, PendingIsPublished
<1>4. {published', pending'} \subseteq Counts
  BY <1>0, <1>1, <1>3 DEF Counts
<1>5. TypeOK'
  BY <1>1, <1>4 DEF IInv, TypeOK, process
<1>6. ASSUME NEW q \in Outcome
      PROVE  \E shown \in [0..Len(link) -> 0..MaxPublishes] :
               WillShow(q, shown)' /\ shown[Len(link)] + pending'[q] = published'[q]
  <2>1. PICK shown \in [0..Len(link) -> 0..MaxPublishes] :
               WillShow(q, shown) /\ shown[Len(link)] + pending[q] = published[q]
    BY DEF IInv, CountersAreExact
  <2>2. WillShow(q, shown)'
    BY <1>1, <2>1 DEF WillShow
  <2>3. shown[Len(link)] \in Nat
    <3>1. Len(link) \in 0..Len(link)
      BY <1>0
    <3>2. shown[Len(link)] \in 0..MaxPublishes
      BY <3>1
    <3>3. QED
      BY <3>2
  <2>4. shown[Len(link)] + pending'[q] = published'[q]
    <3>1. CASE q = o
      BY <1>0, <1>1, <2>1, <2>3, <3>1, PendingIsPublished
    <3>2. CASE q # o
      BY <1>0, <1>1, <2>1, <3>2
    <3>3. QED
      BY <3>1, <3>2
  <2>5. QED
    BY <2>2, <2>4
<1>7. QED
  BY <1>1, <1>5, <1>6 DEF IInv, CountersAreExact

\* A batch takes what is pending to the end of the channel.
LEMMA PushKeepsInv ==
  ASSUME IInv, Push
  PROVE  IInv'
<1> DEFINE batch == [connections |-> connections, subscriptions |-> subscriptions,
                     publishes |-> pending]
<1>0. link \in Seq(Meters) /\ Len(link) \in Nat /\ pending \in Counts /\ published \in Counts
      /\ batch \in Meters /\ NoCounts \in Counts
  BY Batches DEF IInv, TypeOK
<1>1. /\ link' = Append(link, batch) /\ pending' = NoCounts /\ Len(link) < MaxQueue
      /\ UNCHANGED <<process, broker, connections, subscriptions, published, metrics>>
  BY DEF Push
<1>2. link' \in Seq(Meters) /\ Len(link') = Len(link) + 1
  BY <1>0, <1>1
<1>3. Len(link') <= MaxQueue
  BY <1>0, <1>1, <1>2, ProcessAssumption
<1>4. TypeOK'
  BY <1>0, <1>1, <1>2, <1>3 DEF IInv, TypeOK, process
<1>5. /\ link'[Len(link) + 1] = batch
      /\ \A k \in 1..Len(link) : link'[k] = link[k]
  BY <1>0, <1>1
<1>6. ASSUME NEW o \in Outcome
      PROVE  \E shown \in [0..Len(link') -> 0..MaxPublishes] :
               WillShow(o, shown)' /\ shown[Len(link')] + pending'[o] = published'[o]
  <2>1. PICK shown \in [0..Len(link) -> 0..MaxPublishes] :
               WillShow(o, shown) /\ shown[Len(link)] + pending[o] = published[o]
    BY DEF IInv, CountersAreExact
  <2> DEFINE longer == [k \in 0..Len(link) + 1 |->
                          IF k = Len(link) + 1 THEN published[o] ELSE shown[k]]
  <2>2. longer \in [0..Len(link') -> 0..MaxPublishes]
    <3>1. ASSUME NEW k \in 0..Len(link) + 1
          PROVE  (IF k = Len(link) + 1 THEN published[o] ELSE shown[k]) \in 0..MaxPublishes
      <4>1. CASE k = Len(link) + 1
        BY <1>0, <4>1, CountsAreNumbers
      <4>2. CASE k # Len(link) + 1
        BY <1>0, <2>1, <4>2
      <4>3. QED
        BY <4>1, <4>2
    <3>2. QED
      BY <1>2, <3>1
  <2>3. longer[Len(link) + 1] = published[o] /\ \A k \in 0..Len(link) : longer[k] = shown[k]
    BY <1>0
  <2>4. ASSUME NEW k \in 1..Len(link')
        PROVE  longer[k] = longer[k - 1] + link'[k].publishes[o]
    <3> HIDE DEF longer
    <3>1. CASE k = Len(link) + 1
      <4>1. longer[k - 1] = shown[Len(link)]
        BY <1>0, <2>3, <3>1
      <4>2. link'[k].publishes = pending
        BY <1>5, <3>1
      <4>3. QED
        BY <2>1, <2>3, <3>1, <4>1, <4>2
    <3>2. CASE k # Len(link) + 1
      <4>1. k \in 1..Len(link) /\ k \in 0..Len(link) /\ k - 1 \in 0..Len(link)
        BY <1>0, <1>2, <3>2
      <4>2. shown[k] = shown[k - 1] + link[k].publishes[o]
        BY <2>1, <4>1 DEF WillShow
      <4>3. QED
        BY <1>5, <2>3, <4>1, <4>2
    <3>3. QED
      BY <3>1, <3>2
  <2>5. longer[0] = metrics'.publishes[o]
    BY <1>0, <1>1, <2>1, <2>3 DEF WillShow
  <2>6. longer[Len(link')] + pending'[o] = published'[o]
    <3>1. pending'[o] = 0
      BY <1>1 DEF NoCounts
    <3>2. longer[Len(link')] = published[o] /\ published[o] \in Nat
      BY <1>0, <1>2, <2>3, CountsAreNumbers
    <3>3. QED
      BY <1>1, <3>1, <3>2
  <2> HIDE DEF longer
  <2>7. PICK next \in [0..Len(link') -> 0..MaxPublishes] : next = longer
    BY <2>2
  <2>8. WillShow(o, next)'
    BY <2>4, <2>5, <2>7 DEF WillShow
  <2>9. QED
    BY <2>6, <2>7, <2>8
<1>7. QED
  BY <1>4, <1>6 DEF IInv, CountersAreExact

\* A poll takes the head of the channel into the collector.
LEMMA PollKeepsInv ==
  ASSUME IInv, Poll
  PROVE  IInv'
<1> DEFINE batch == Head(link)
<1>0. /\ link \in Seq(Meters) /\ Len(link) \in Nat \ {0} /\ metrics \in Meters
      /\ batch = link[1] /\ batch \in Meters
  BY DEF Poll, IInv, TypeOK
<1>1. /\ metrics' = [connections |-> batch.connections,
                     subscriptions |-> IF batch.subscriptions > 0 THEN batch.subscriptions
                                                                  ELSE metrics.subscriptions,
                     publishes |-> [o \in Outcome |->
                                      metrics.publishes[o] + batch.publishes[o]]]
      /\ link' = Tail(link)
      /\ UNCHANGED <<process, router>>
  BY DEF Poll
<1>2. /\ link' \in Seq(Meters) /\ Len(link') = Len(link) - 1 /\ Len(link') \in Nat
      /\ \A k \in 1..Len(link') : link'[k] = link[k + 1]
  BY <1>0, <1>1
<1>3. ASSUME NEW o \in Outcome,
             NEW shown \in [0..Len(link) -> 0..MaxPublishes], WillShow(o, shown)
      PROVE  metrics'.publishes[o] = shown[1]
  <2>1. shown[1] = shown[0] + link[1].publishes[o] /\ shown[0] = metrics.publishes[o]
    <3>1. 1 \in 1..Len(link) /\ 1 - 1 = 0
      BY <1>0
    <3>2. QED
      BY <1>3, <3>1 DEF WillShow
  <2>2. metrics'.publishes[o] = metrics.publishes[o] + batch.publishes[o]
    BY <1>1
  <2>3. QED
    BY <1>0, <2>1, <2>2
<1>4. ASSUME NEW o \in Outcome PROVE metrics'.publishes[o] \in 0..MaxPublishes
  <2>1. PICK shown \in [0..Len(link) -> 0..MaxPublishes] : WillShow(o, shown)
    BY DEF IInv, CountersAreExact
  <2>2. shown[1] \in 0..MaxPublishes
    BY <1>0, <2>1
  <2>3. QED
    BY <1>3, <2>1, <2>2
<1>5. metrics' \in Meters
  <2>1. metrics'.publishes \in Counts
    BY <1>1, <1>4 DEF Counts
  <2>2. /\ batch.connections \in 0..MaxClients /\ batch.subscriptions \in 0..MaxClients
        /\ metrics.subscriptions \in 0..MaxClients
    BY <1>0 DEF Meters
  <2>3. QED
    BY <1>1, <2>1, <2>2 DEF Meters
<1>6. Len(link') <= MaxQueue
  BY <1>0, <1>2, ProcessAssumption DEF IInv, TypeOK
<1>7. TypeOK'
  BY <1>1, <1>2, <1>5, <1>6 DEF IInv, TypeOK, process, router
<1>8. ASSUME NEW o \in Outcome
      PROVE  \E shown \in [0..Len(link') -> 0..MaxPublishes] :
               WillShow(o, shown)' /\ shown[Len(link')] + pending'[o] = published'[o]
  <2>1. PICK shown \in [0..Len(link) -> 0..MaxPublishes] :
               WillShow(o, shown) /\ shown[Len(link)] + pending[o] = published[o]
    BY DEF IInv, CountersAreExact
  <2> DEFINE later == [k \in 0..Len(link') |-> shown[k + 1]]
  <2>2. later \in [0..Len(link') -> 0..MaxPublishes]
    <3>1. ASSUME NEW k \in 0..Len(link') PROVE shown[k + 1] \in 0..MaxPublishes
      BY <1>0, <1>2, <2>1
    <3>2. QED
      BY <3>1
  <2>3. later[0] = shown[1] /\ later[Len(link')] = shown[Len(link)]
    BY <1>0, <1>2
  <2>4. ASSUME NEW k \in 1..Len(link')
        PROVE  later[k] = later[k - 1] + link'[k].publishes[o]
    <3>1. /\ k \in 0..Len(link') /\ k - 1 \in 0..Len(link') /\ k + 1 \in 1..Len(link)
          /\ (k + 1) - 1 = k /\ (k - 1) + 1 = k
      BY <1>0, <1>2
    <3>2. shown[k + 1] = shown[k] + link[k + 1].publishes[o]
      <4>1. shown[k + 1] = shown[(k + 1) - 1] + link[k + 1].publishes[o]
        BY <2>1, <3>1 DEF WillShow
      <4>2. QED
        BY <3>1, <4>1
    <3>3. later[k] = shown[k + 1] /\ later[k - 1] = shown[k]
      BY <3>1
    <3>4. QED
      BY <1>2, <3>2, <3>3
  <2>5. later[0] = metrics'.publishes[o]
    BY <1>3, <2>1, <2>3
  <2>6. later[Len(link')] + pending'[o] = published'[o]
    BY <1>1, <2>1, <2>3 DEF router
  <2> HIDE DEF later
  <2>7. PICK next \in [0..Len(link') -> 0..MaxPublishes] : next = later
    BY <2>2
  <2>8. WillShow(o, next)'
    BY <2>4, <2>5, <2>7 DEF WillShow
  <2>9. QED
    BY <2>6, <2>7, <2>8
<1>9. QED
  BY <1>7, <1>8 DEF IInv, CountersAreExact

\* Every step keeps the types and the counters exact.
LEMMA NextInv == IInv /\ [Next]_vars => IInv'
<1> SUFFICES ASSUME IInv, [Next]_vars PROVE IInv'
  OBVIOUS
<1> USE DEF IInv
<1>1. ASSUME LoadConfig \/ StartBroker \/ SpawnUpdater PROVE IInv'
  BY <1>1, SameCounters DEF LoadConfig, StartBroker, SpawnUpdater, TypeOK, Stage, router
<1>2. ASSUME NEW s \in Service, Spawn(s) PROVE IInv'
  <2>1. After(s) \in Stage
    BY DEF After, Service, Stage
  <2>2. TypeOK'
    BY <1>2, <2>1 DEF Spawn, TypeOK, router
  <2>3. QED
    BY <1>2, <2>2, SameCounters DEF Spawn, router
<1>3. ASSUME NEW s \in Service, Bind(s) PROVE IInv'
  BY <1>3, SameCounters DEF Bind, TypeOK, router
<1>4. ASSUME Interrupt \/ SendShutdown \/ Wake \/ Cleanup PROVE IInv'
  BY <1>4, SameCounters DEF Interrupt, SendShutdown, Wake, Cleanup, TypeOK, Stage, router
<1>5. ASSUME BrokerStops PROVE IInv'
  BY <1>5, SameCounters, ProcessAssumption DEF BrokerStops, TypeOK, process
<1>6. ASSUME Clients PROVE IInv'
  BY <1>6, SameCounters DEF Clients, TypeOK, process
<1>7. ASSUME UNCHANGED vars PROVE IInv'
  BY <1>7, SameCounters DEF vars, process, router, TypeOK
<1>8. QED
  BY <1>1, <1>2, <1>3, <1>4, <1>5, <1>6, <1>7, PublishKeepsInv, PushKeepsInv, PollKeepsInv
     DEF Next

\* Every reachable state is well typed: in particular no counter ever shows
\* more than was published.
THEOREM ProcessTypeCorrect == Spec => []TypeOK
<1>1. IInv => TypeOK
  BY DEF IInv
<1>2. QED
  BY InitInv, NextInv, <1>1, PTL DEF Spec

\* In every reachable state the counters, the batches in the channel and what
\* the router has yet to report add up to what was published.
THEOREM CountersExact == Spec => []CountersAreExact
<1>1. IInv => CountersAreExact
  BY DEF IInv
<1>2. QED
  BY InitInv, NextInv, <1>1, PTL DEF Spec
=============================================================================
