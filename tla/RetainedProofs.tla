--------------------------- MODULE RetainedProofs ---------------------------
(***************************************************************************)
(* Proofs about Retained for any cluster, any topics and any number of     *)
(* publications, seconds and faults, on a lossy or a reliable network.      *)
(***************************************************************************)
EXTENDS Retained, TLAPS

\* What is known of the publications made so far: they are in the past, and
\* only they are being sent.
Published ==
  /\ \A i \in Number : i <= count => /\ published[i] \in Publication
                                     /\ published[i].at <= clock
  /\ \A i \in syncing : i <= count

IInv == TypeOK /\ Published /\ CopiesAreTruthful

\* The counters are natural numbers.
LEMMA Counters ==
  ASSUME TypeOK
  PROVE  clock \in Nat /\ count \in Nat /\ faults \in Nat /\ MaxPublish \in Nat
         /\ MaxClock \in Nat /\ MaxFaults \in Nat
  BY RetainedAssumption DEF TypeOK

\* What is retained is a message.
LEMMA RetainedType ==
  ASSUME TypeOK, NEW n \in Node, NEW t \in Topic, Retains(n, t)
  PROVE  store[n][t] \in RetainedMessage
  BY DEF TypeOK, Retains

\* A publication differs from no publication.
LEMMA PublishedIsSomething ==
  ASSUME TypeOK, Published, NEW i \in Number, i <= count
  PROVE  /\ published[i] \in Publication /\ published[i] # Nothing
         /\ published[i].node \in Node /\ published[i].topic \in Topic
         /\ published[i].at \in Nat /\ published[i].at <= clock
<1>1. published[i] \in Publication /\ published[i].at <= clock
  BY DEF Published
<1>2. published[i] # Nothing
  BY <1>1, RetainedAssumption
<1>3. QED
  BY <1>1, <1>2, RetainedAssumption DEF Publication

-----------------------------------------------------------------------------
(* Type correctness.                                                       *)

\* The initial state satisfies every part of the invariant.
LEMMA InitInv == Init => IInv
<1> SUFFICES ASSUME Init PROVE IInv
  OBVIOUS
<1>1. 0 \in 0..MaxClock /\ 0 \in 0..MaxPublish /\ 0 \in 0..MaxFaults
  BY RetainedAssumption
<1>2. TypeOK
  BY <1>1 DEF Init, TypeOK, Peers!Knowledge
<1>3. Published
  BY RetainedAssumption DEF Init, Published, Number
<1>4. CopiesAreTruthful
  BY DEF Init, CopiesAreTruthful, Retains
<1>5. QED
  BY <1>2, <1>3, <1>4 DEF IInv

\* Every step keeps the types, given what is known of the publications.
LEMMA NextType == TypeOK /\ Published /\ [Next]_vars => TypeOK'
<1> SUFFICES ASSUME TypeOK, Published, [Next]_vars PROVE TypeOK'
  OBVIOUS
<1>0. /\ clock \in Nat /\ count \in Nat /\ faults \in Nat
      /\ MaxPublish \in Nat /\ MaxClock \in Nat /\ MaxFaults \in Nat
  BY Counters
<1>1. CASE Tick
  BY <1>0, <1>1 DEF Tick, TypeOK, table
<1>2. ASSUME NEW n \in Node, NEW t \in Topic, StoreRetained(n, t) PROVE TypeOK'
  <2>1. count + 1 \in Number /\ count + 1 \in 0..MaxPublish
    BY <1>0, <1>2 DEF StoreRetained, Number
  <2>2. [node |-> n, topic |-> t, at |-> clock] \in Publication
    BY <1>0 DEF TypeOK, Publication
  <2>3. [payload |-> count + 1, timestamp |-> clock, source_node |-> n] \in RetainedMessage
    BY <2>1 DEF TypeOK, RetainedMessage
  <2>4. published' \in [Number -> Publication \cup {Nothing}]
    BY <1>2, <2>2 DEF StoreRetained, TypeOK
  <2>5. store' \in [Node -> [Topic -> RetainedMessage \cup {Nothing}]]
    BY <1>2, <2>3 DEF StoreRetained, TypeOK
  <2>6. due' \in [Number -> SUBSET Node]
    BY <1>2 DEF StoreRetained, Known, TypeOK
  <2>7. QED
    BY <1>2, <2>1, <2>4, <2>5, <2>6 DEF StoreRetained, TypeOK, table
<1>3. ASSUME NEW i \in Number, NEW p \in Node, SendSync(i, p) PROVE TypeOK'
  <2>1. i <= count
    BY <1>3 DEF SendSync, Published
  <2>2. [to |-> p, topic |-> published[i].topic, payload |-> i,
         source_node |-> published[i].node] \in RetainedSync
    BY <2>1, PublishedIsSomething DEF RetainedSync
  <2>3. net' \subseteq RetainedSync
    BY <1>3, <2>2 DEF SendSync, TypeOK
  <2>4. sent' \in [Number -> SUBSET Node]
    BY <1>3 DEF SendSync, TypeOK
  <2>5. due' \in [Number -> SUBSET Node]
    BY <1>3 DEF SendSync, TypeOK
  <2>6. QED
    BY <1>3, <2>3, <2>4, <2>5 DEF SendSync, TypeOK, table
<1>4. ASSUME NEW i \in Number, FinishSync(i) PROVE TypeOK'
  BY <1>4 DEF FinishSync, TypeOK, table
<1>5. ASSUME NEW m \in net, HandleRetainedSync(m) PROVE TypeOK'
  <2>1. m \in RetainedSync
    BY DEF TypeOK
  <2>2. [payload |-> m.payload, timestamp |-> clock, source_node |-> m.source_node]
          \in RetainedMessage
    BY <2>1 DEF TypeOK, RetainedMessage, RetainedSync
  <2>3. store' \in [Node -> [Topic -> RetainedMessage \cup {Nothing}]]
    <3>1. CASE UNCHANGED store
      BY <3>1 DEF TypeOK
    <3>2. CASE store' = [store EXCEPT ![m.to][m.topic] =
                 [payload |-> m.payload, timestamp |-> clock, source_node |-> m.source_node]]
      BY <2>2, <3>2 DEF TypeOK
    <3>3. QED
      BY <1>5, <3>1, <3>2 DEF HandleRetainedSync
  <2>4. QED
    BY <1>5, <2>3 DEF HandleRetainedSync, TypeOK, table
<1>a. Fault => faults' \in 0..MaxFaults
  BY <1>0 DEF Fault, TypeOK
<1>6. ASSUME NEW n \in Node, NEW p \in Node, NEW entry \in {"bare", "heard", "full"}, Learn(n, p, entry)
      PROVE  TypeOK'
  <2>1. running' \subseteq Node /\ view' \in [Node -> [Node -> Peers!Knowledge]]
    BY <1>6 DEF Learn, Peers!Learn, Peers!Knowledge, TypeOK
  <2>2. faults' \in 0..MaxFaults
    BY <1>6, <1>a DEF Learn, TypeOK
  <2>3. QED
    BY <1>6, <2>1, <2>2 DEF Learn, TypeOK
<1>b. ASSUME NEW n \in Node, NEW p \in Node, Forget(n, p) PROVE TypeOK'
  <2>1. running' \subseteq Node /\ view' \in [Node -> [Node -> Peers!Knowledge]]
    BY <1>b DEF Forget, Peers!Forget, Peers!Knowledge, TypeOK
  <2>2. due' \in [Number -> SUBSET Node]
    BY <1>b DEF Forget, TypeOK
  <2>3. QED
    BY <1>b, <1>a, <2>1, <2>2 DEF Forget, TypeOK
<1>7. ASSUME NEW n \in Node, Crash(n) PROVE TypeOK'
  <2>1. running' \subseteq Node /\ view' \in [Node -> [Node -> Peers!Knowledge]]
    BY <1>7 DEF Crash, Peers!Stop, Peers!Empty, Peers!Knowledge, TypeOK
  <2>2. store' \in [Node -> [Topic -> RetainedMessage \cup {Nothing}]]
    BY <1>7 DEF Crash, TypeOK
  <2>3. since' \in [Node -> 0..MaxPublish]
    BY <1>7 DEF Crash, TypeOK
  <2>4. QED
    BY <1>7, <1>a, <2>1, <2>2, <2>3 DEF Crash, TypeOK
<1>c. ASSUME NEW n \in Node, Start(n) PROVE TypeOK'
  BY <1>c DEF Start, Peers!Start, TypeOK
<1>8. CASE UNCHANGED vars
  BY <1>8 DEF vars, table, TypeOK
<1>9. QED
  BY <1>1, <1>2, <1>3, <1>4, <1>5, <1>6, <1>b, <1>7, <1>c, <1>8 DEF Next

\* Every step keeps the publications in the past and sends only those made.
LEMMA NextPublished == TypeOK /\ Published /\ [Next]_vars => Published'
<1> SUFFICES ASSUME TypeOK, Published, [Next]_vars PROVE Published'
  OBVIOUS
<1>0. clock \in Nat /\ count \in Nat /\ MaxPublish \in Nat
  BY Counters
<1>1. CASE Tick
  <2>1. ASSUME NEW i \in Number, i <= count PROVE published[i].at <= clock + 1
    BY <1>0, <2>1, PublishedIsSomething
  <2>2. QED
    BY <1>1, <2>1 DEF Tick, Published
<1>2. ASSUME NEW n \in Node, NEW t \in Topic, StoreRetained(n, t) PROVE Published'
  <2>1. [node |-> n, topic |-> t, at |-> clock] \in Publication
    BY <1>0 DEF TypeOK, Publication
  <2>2. published'[count + 1] = [node |-> n, topic |-> t, at |-> clock]
    BY <1>0, <1>2 DEF StoreRetained, TypeOK, Number
  <2>3. ASSUME NEW i \in Number, i <= count' PROVE published'[i] \in Publication
                                                /\ published'[i].at <= clock'
    <3>1. CASE i = count + 1
      BY <1>0, <1>2, <2>1, <2>2, <3>1 DEF StoreRetained
    <3>2. CASE i # count + 1
      <4>1. i <= count /\ published'[i] = published[i] /\ clock' = clock
        BY <1>0, <1>2, <2>3, <3>2 DEF StoreRetained, TypeOK, Number
      <4>2. QED
        BY <4>1 DEF Published
    <3>3. QED
      BY <3>1, <3>2
  <2>4. ASSUME NEW i \in syncing' PROVE i <= count'
    <3>1. CASE i = count + 1
      BY <1>0, <1>2, <3>1 DEF StoreRetained
    <3>2. CASE i \in syncing
      <4>1. i \in Nat /\ i <= count
        BY <1>0, <3>2 DEF Published, TypeOK, Number
      <4>2. QED
        BY <1>0, <1>2, <4>1 DEF StoreRetained
    <3>3. QED
      BY <1>2, <3>1, <3>2 DEF StoreRetained
  <2>5. QED
    BY <2>3, <2>4 DEF Published
<1>3. ASSUME NEW i \in Number, NEW p \in Node, SendSync(i, p) PROVE Published'
  BY <1>3 DEF SendSync, Published
<1>4. ASSUME NEW i \in Number, FinishSync(i) PROVE Published'
  BY <1>4 DEF FinishSync, Published
<1>5. ASSUME NEW m \in net, HandleRetainedSync(m) PROVE Published'
  BY <1>5 DEF HandleRetainedSync, Published
<1>6. ASSUME NEW n \in Node, NEW p \in Node, NEW entry, Learn(n, p, entry) \/ Forget(n, p)
      PROVE  Published'
  BY <1>6 DEF Learn, Forget, Published
<1>b. ASSUME NEW n \in Node, Start(n) PROVE Published'
  BY <1>b DEF Start, Published
<1>7. ASSUME NEW n \in Node, Crash(n) PROVE Published'
  BY <1>7 DEF Crash, Published
<1>8. CASE UNCHANGED vars
  BY <1>8 DEF vars, Published
<1>9. QED
  BY <1>1, <1>2, <1>3, <1>4, <1>5, <1>6, <1>b, <1>7, <1>8 DEF Next

\* Every reachable state is well typed.
THEOREM RetainedTypeCorrect == Spec => []TypeOK
<1>1. Init => TypeOK /\ Published
  BY InitInv DEF IInv
<1>2. TypeOK /\ Published /\ [Next]_vars => (TypeOK /\ Published)'
  BY NextType, NextPublished
<1>3. QED
  BY <1>1, <1>2, PTL DEF Spec

-----------------------------------------------------------------------------
(* Copies.                                                                 *)

\* The part of CopiesAreTruthful about one message of a store.
StoredCopy(n, t) ==
  Retains(n, t) => /\ IsCopyOf(store[n][t].payload, t, store[n][t].source_node)
                   /\ published[store[n][t].payload].at <= store[n][t].timestamp

\* A publication is never altered, so a copy of it remains one.
LEMMA CopiesRemain ==
  ASSUME TypeOK, Published, [Next]_vars, NEW i \in Number, NEW t \in Topic, NEW n \in Node,
         IsCopyOf(i, t, n)
  PROVE  IsCopyOf(i, t, n)' /\ published'[i] = published[i]
<1>0. count \in Nat /\ i \in Nat /\ i <= count /\ MaxPublish \in Nat
  BY Counters DEF IsCopyOf, Number
<1>1. published'[i] = published[i] /\ count' \in Nat /\ count <= count'
  <2>1. ASSUME NEW m \in Node, NEW s \in Topic, StoreRetained(m, s)
        PROVE  published'[i] = published[i] /\ count' = count + 1
    BY <1>0, <2>1 DEF StoreRetained, TypeOK, Number
  <2>2. CASE UNCHANGED <<published, count>>
    BY <1>0, <2>2
  <2>3. ASSUME ~(\E m \in Node, s \in Topic : StoreRetained(m, s))
        PROVE  UNCHANGED <<published, count>>
    BY <2>3 DEF Next, vars, Tick, SendSync, FinishSync, HandleRetainedSync, Learn, Forget, Crash, Start
  <2>4. QED
    BY <1>0, <2>1, <2>2, <2>3
<1>2. QED
  BY <1>0, <1>1 DEF IsCopyOf

\* A store that a step leaves alone keeps its copy, as does one it empties.
LEMMA StoredCopyRemains ==
  ASSUME TypeOK, Published, CopiesAreTruthful, [Next]_vars, NEW n \in Node, NEW t \in Topic,
         store'[n][t] \in {store[n][t], Nothing}
  PROVE  StoredCopy(n, t)'
<1>1. CASE store'[n][t] = Nothing
  BY <1>1 DEF StoredCopy, Retains
<1>2. CASE store'[n][t] = store[n][t] /\ Retains(n, t)
  <2>1. /\ IsCopyOf(store[n][t].payload, t, store[n][t].source_node)
        /\ published[store[n][t].payload].at <= store[n][t].timestamp
    BY <1>2 DEF CopiesAreTruthful
  <2>2. store[n][t].payload \in Number /\ store[n][t].source_node \in Node
    BY <1>2, RetainedType DEF RetainedMessage
  <2>3. /\ IsCopyOf(store[n][t].payload, t, store[n][t].source_node)'
        /\ published'[store[n][t].payload] = published[store[n][t].payload]
    <3> DEFINE i == store[n][t].payload
               q == store[n][t].source_node
    <3>1. i \in Number /\ q \in Node /\ IsCopyOf(i, t, q)
      BY <2>1, <2>2
    <3>2. published'[i] = published[i] /\ i <= count' /\ published'[i] # Nothing
          /\ published'[i].topic = t /\ published'[i].node = q
      <4> HIDE DEF i, q
      <4>1. QED
        BY <3>1, CopiesRemain DEF IsCopyOf
    <3>3. QED
      BY <1>2, <3>2 DEF IsCopyOf
  <2>4. QED
    BY <1>2, <2>1, <2>3 DEF StoredCopy, IsCopyOf
<1>3. QED
  BY <1>1, <1>2 DEF Retains

\* A message in flight keeps being a copy.
LEMMA FlyingCopyRemains ==
  ASSUME TypeOK, Published, CopiesAreTruthful, [Next]_vars, NEW m \in net
  PROVE  IsCopyOf(m.payload, m.topic, m.source_node)'
<1>1. /\ m.payload \in Number /\ m.topic \in Topic /\ m.source_node \in Node
      /\ IsCopyOf(m.payload, m.topic, m.source_node)
  BY DEF TypeOK, RetainedSync, CopiesAreTruthful
<1>2. QED
  BY <1>1, CopiesRemain

\* If a step adds no message, the copies in flight remain copies.
LEMMA CopiesSuffice ==
  ASSUME TypeOK, Published, CopiesAreTruthful, [Next]_vars, net' \subseteq net,
         \A n \in Node, t \in Topic : StoredCopy(n, t)'
  PROVE  CopiesAreTruthful'
<1>1. \A m \in net' : IsCopyOf(m.payload, m.topic, m.source_node)'
  BY FlyingCopyRemains
<1>2. QED
  BY <1>1 DEF CopiesAreTruthful, StoredCopy

\* Every step keeps all copies truthful.
LEMMA NextCopies ==
  TypeOK /\ Published /\ CopiesAreTruthful /\ [Next]_vars => CopiesAreTruthful'
<1> SUFFICES ASSUME TypeOK, Published, CopiesAreTruthful, [Next]_vars
             PROVE  CopiesAreTruthful'
  OBVIOUS
<1>0. clock \in Nat /\ count \in Nat /\ MaxPublish \in Nat
  BY Counters
<1>a. ASSUME UNCHANGED store PROVE \A n \in Node, t \in Topic : StoredCopy(n, t)'
  BY <1>a, StoredCopyRemains
<1>1. ASSUME \/ Tick \/ UNCHANGED vars
             \/ \E i \in Number : FinishSync(i)
             \/ \E n, p \in Node : Forget(n, p) \/ \E entry \in {"bare", "heard", "full"} : Learn(n, p, entry)
             \/ \E n \in Node : Start(n)
      PROVE  CopiesAreTruthful'
  <2>1. UNCHANGED store /\ net' \subseteq net
    BY <1>1 DEF Tick, FinishSync, Learn, Forget, Start, vars
  <2>2. QED
    BY <1>a, <2>1, CopiesSuffice
<1>2. ASSUME NEW n \in Node, NEW t \in Topic, StoreRetained(n, t) PROVE CopiesAreTruthful'
  <2>1. net' \subseteq net
    BY <1>2 DEF StoreRetained
  <2>2. ASSUME NEW m \in Node, NEW s \in Topic PROVE StoredCopy(m, s)'
    <3>1. CASE m = n /\ s = t
      <4>1. store'[n][t] = [payload |-> count + 1, timestamp |-> clock, source_node |-> n]
        BY <1>2 DEF StoreRetained, TypeOK
      <4>2. published'[count + 1] = [node |-> n, topic |-> t, at |-> clock]
        BY <1>0, <1>2 DEF StoreRetained, TypeOK, Number
      <4>3. published'[count + 1] # Nothing /\ count + 1 <= count'
        <5>1. [node |-> n, topic |-> t, at |-> clock] \in Publication
          BY DEF TypeOK, Publication
        <5>2. QED
          BY <1>0, <1>2, <4>2, <5>1, RetainedAssumption DEF StoreRetained
      <4>4. QED
        BY <1>0, <3>1, <4>1, <4>2, <4>3 DEF StoredCopy, IsCopyOf
    <3>2. CASE ~(m = n /\ s = t)
      <4>1. store'[m][s] = store[m][s]
        BY <1>2, <3>2 DEF StoreRetained, TypeOK
      <4>2. QED
        BY <4>1, StoredCopyRemains
    <3>3. QED
      BY <3>1, <3>2
  <2>3. QED
    BY <2>1, <2>2, CopiesSuffice
<1>3. ASSUME NEW i \in Number, NEW p \in Node, SendSync(i, p) PROVE CopiesAreTruthful'
  <2>1. i <= count
    BY <1>3 DEF SendSync, Published
  <2>2. ASSUME NEW m \in net' PROVE IsCopyOf(m.payload, m.topic, m.source_node)'
    <3>1. CASE m \in net
      BY <3>1, FlyingCopyRemains
    <3>2. CASE m \notin net
      <4>1. m = [to |-> p, topic |-> published[i].topic, payload |-> i,
                 source_node |-> published[i].node]
        BY <1>3, <3>2 DEF SendSync
      <4>2. UNCHANGED <<published, count>>
        BY <1>3 DEF SendSync
      <4>3. QED
        BY <2>1, <4>1, <4>2, PublishedIsSomething DEF IsCopyOf
    <3>3. QED
      BY <3>1, <3>2
  <2>3. UNCHANGED store
    BY <1>3 DEF SendSync
  <2>4. QED
    BY <1>a, <2>2, <2>3 DEF CopiesAreTruthful, StoredCopy
<1>4. ASSUME NEW m \in net, HandleRetainedSync(m) PROVE CopiesAreTruthful'
  <2>1. /\ m \in RetainedSync /\ m.payload \in Number
        /\ IsCopyOf(m.payload, m.topic, m.source_node)
        /\ UNCHANGED <<published, count, clock>> /\ net' \subseteq net
    BY <1>4 DEF HandleRetainedSync, TypeOK, CopiesAreTruthful, RetainedSync
  <2>2. published[m.payload].at <= clock
    BY <2>1, PublishedIsSomething DEF IsCopyOf
  <2>3. ASSUME NEW n \in Node, NEW t \in Topic PROVE StoredCopy(n, t)'
    <3>1. CASE store'[n][t] = store[n][t]
      BY <3>1, StoredCopyRemains
    <3>2. CASE store'[n][t] # store[n][t]
      <4>1. /\ n = m.to /\ t = m.topic
            /\ store'[n][t] = [payload |-> m.payload, timestamp |-> clock,
                               source_node |-> m.source_node]
        BY <1>4, <2>1, <3>2 DEF HandleRetainedSync, TypeOK, RetainedSync
      <4>2. QED
        BY <2>1, <2>2, <4>1 DEF StoredCopy, IsCopyOf
    <3>3. QED
      BY <3>1, <3>2
  <2>4. QED
    BY <2>1, <2>3, CopiesSuffice
<1>5. ASSUME NEW r \in Node, Crash(r) PROVE CopiesAreTruthful'
  <2>1. net' \subseteq net
    BY <1>5 DEF Crash
  <2>2. ASSUME NEW n \in Node, NEW t \in Topic PROVE store'[n][t] \in {store[n][t], Nothing}
    BY <1>5 DEF Crash, TypeOK
  <2>3. QED
    BY <2>1, <2>2, StoredCopyRemains, CopiesSuffice
<1>6. QED
  BY <1>1, <1>2, <1>3, <1>4, <1>5 DEF Next

\* Every copy of a publication, stored or in flight, names its topic and the
\* node it was published on, and is stamped no earlier than it was published.
THEOREM CopiesTruthful == Spec => []CopiesAreTruthful
<1>1. IInv /\ [Next]_vars => IInv'
  BY NextType, NextPublished, NextCopies DEF IInv
<1>2. IInv => CopiesAreTruthful
  BY DEF IInv
<1>3. QED
  BY InitInv, <1>1, <1>2, PTL DEF Spec

-----------------------------------------------------------------------------
(* A node's own publications.                                              *)

\* The last own publication of a topic, before and after a step.
LEMMA LastOwnBefore ==
  ASSUME TypeOK, [Next]_vars, NEW n \in Node, NEW t \in Topic, NEW i \in Number,
         i <= count, LastOwn(n, t, i)'
  PROVE  /\ LastOwn(n, t, i) /\ published'[i] = published[i]
         /\ ~StoreRetained(n, t)
<1>0. count \in Nat /\ i \in Nat /\ MaxPublish \in Nat
  BY Counters DEF Number
<1>1. CASE UNCHANGED <<published, count>>
  <2>1. ~StoreRetained(n, t)
    BY <1>0, <1>1 DEF StoreRetained
  <2>2. QED
    BY <1>1, <2>1 DEF LastOwn
<1>2. ASSUME NEW m \in Node, NEW s \in Topic, StoreRetained(m, s)
      PROVE  LastOwn(n, t, i) /\ published'[i] = published[i] /\ ~StoreRetained(n, t)
  <2>1. /\ count' = count + 1 /\ count + 1 \in Number
        /\ \A j \in Number : j # count + 1 => published'[j] = published[j]
        /\ published'[count + 1] = [node |-> m, topic |-> s, at |-> clock]
    BY <1>0, <1>2 DEF StoreRetained, TypeOK, Number
  <2>2. published'[i] = published[i]
    BY <1>0, <2>1
  <2>3. ASSUME NEW j \in i + 1 .. count
        PROVE  published[j].node # n \/ published[j].topic # t
    <3>1. j \in Number /\ j # count + 1 /\ j \in i + 1 .. count'
      BY <1>0, <2>1, <2>3 DEF Number
    <3>2. QED
      BY <2>1, <3>1 DEF LastOwn
  <2>4. ~StoreRetained(n, t)
    <3>1. SUFFICES ASSUME StoreRetained(n, t) PROVE FALSE
      OBVIOUS
    <3>2. published'[count + 1] = [node |-> n, topic |-> t, at |-> clock]
      BY <1>0, <3>1 DEF StoreRetained, TypeOK, Number
    <3>3. count + 1 \in i + 1 .. count'
      BY <1>0, <2>1
    <3>4. QED
      BY <3>2, <3>3 DEF LastOwn
  <2>5. QED
    BY <2>2, <2>3, <2>4 DEF LastOwn
<1>3. ASSUME ~(\E m \in Node, s \in Topic : StoreRetained(m, s))
      PROVE  UNCHANGED <<published, count>>
  BY <1>3 DEF Next, vars, Tick, SendSync, FinishSync, HandleRetainedSync, Learn, Forget, Crash, Start
<1>4. QED
  BY <1>1, <1>2, <1>3

\* The part of OwnWritesHold about one publication.
Holds(n, t, i) ==
  \/ Retains(n, t) /\ store[n][t].payload = i
  \/ Retains(n, t) /\ store[n][t].timestamp > published[i].at

\* Every step lets the last own publication stand or replaces it by a message
\* of a later second, unless its node stops.
LEMMA NextHolds == IInv /\ OwnWritesHold /\ [Next]_vars => OwnWritesHold'
<1> SUFFICES ASSUME IInv, OwnWritesHold, [Next]_vars,
                    NEW n \in Node, NEW t \in Topic, NEW i \in Number,
                    i > since'[n], LastOwn(n, t, i)'
             PROVE  Holds(n, t, i)'
  BY DEF OwnWritesHold, Holds
<1>0. /\ clock \in Nat /\ count \in Nat /\ MaxPublish \in Nat
      /\ i \in Nat /\ TypeOK /\ Published /\ CopiesAreTruthful
  BY Counters DEF IInv, Number
<1>1. ~Crash(n) /\ since'[n] = since[n]
  <2>1. ASSUME Crash(n) PROVE FALSE
    <3>1. since'[n] = count /\ i <= count
      BY <1>0, <2>1 DEF Crash, LastOwn, TypeOK
    <3>2. QED
      BY <1>0, <3>1
  <2>2. ASSUME NEW m \in Node, m # n, Crash(m) PROVE since'[n] = since[n]
    BY <1>0, <2>2 DEF Crash, TypeOK
  <2>3. ASSUME ~(\E m \in Node : Crash(m)) PROVE since' = since
    BY <2>3 DEF Next, vars, Tick, StoreRetained, SendSync, FinishSync,
                HandleRetainedSync, Learn, Forget, Start
  <2>4. QED
    BY <2>1, <2>2, <2>3
<1>2. CASE i <= count
  <2>1. LastOwn(n, t, i) /\ published'[i] = published[i] /\ ~StoreRetained(n, t)
    BY <1>0, <1>2, LastOwnBefore
  <2>2. Holds(n, t, i)
    BY <1>1, <2>1 DEF OwnWritesHold, Holds
  <2>3. Retains(n, t) /\ store[n][t] \in RetainedMessage
    BY <1>0, <2>2, RetainedType DEF Holds
  <2>4. store[n][t].timestamp \in Nat /\ published[i].at \in Nat
    BY <1>0, <1>2, <2>3, PublishedIsSomething, RetainedAssumption DEF RetainedMessage
  <2>5. published[i].at <= store[n][t].timestamp
    <3>1. CASE store[n][t].payload = i
      BY <1>0, <2>3, <3>1 DEF CopiesAreTruthful
    <3>2. CASE store[n][t].timestamp > published[i].at
      BY <2>4, <3>2
    <3>3. QED
      BY <2>2, <3>1, <3>2 DEF Holds
  <2>6. CASE store'[n][t] = store[n][t]
    BY <2>1, <2>2, <2>6 DEF Holds, Retains
  <2>7. ASSUME NEW m \in net, HandleRetainedSync(m), store'[n][t] # store[n][t]
        PROVE  Holds(n, t, i)'
    <3>1. m \in RetainedSync
      BY <1>0 DEF TypeOK
    <3>a. m.to \in Node /\ m.topic \in Topic
          /\ store \in [Node -> [Topic -> RetainedMessage \cup {Nothing}]]
      BY <1>0, <3>1 DEF TypeOK, RetainedSync
    <3>b. ~(Retains(m.to, m.topic) /\ store[m.to][m.topic].timestamp >= clock)
          /\ store' = [store EXCEPT ![m.to][m.topic] =
                         [payload |-> m.payload, timestamp |-> clock,
                          source_node |-> m.source_node]]
      BY <2>7 DEF HandleRetainedSync
    <3>c. m.to = n /\ m.topic = t
      BY <2>7, <3>a, <3>b
    <3>2. /\ ~(store[n][t].timestamp >= clock)
          /\ store'[n][t] = [payload |-> m.payload, timestamp |-> clock,
                             source_node |-> m.source_node]
      BY <2>3, <3>a, <3>b, <3>c
    <3>3. store'[n][t] \in RetainedMessage
      BY <1>0, <3>1, <3>2 DEF RetainedMessage, RetainedSync, TypeOK
    <3>4. store'[n][t] # Nothing
      BY <3>3, RetainedAssumption
    <3>5. clock > published[i].at
      BY <1>0, <2>4, <2>5, <3>2
    <3>6. QED
      BY <2>1, <3>2, <3>4, <3>5 DEF Holds, Retains
  <2>8. ASSUME NEW m \in Node, NEW s \in Topic, StoreRetained(m, s)
        PROVE  store'[n][t] = store[n][t]
    <3>1. ~(m = n /\ s = t)
      BY <2>1, <2>8
    <3>2. QED
      BY <1>0, <2>8, <3>1 DEF StoreRetained, TypeOK
  <2>9. ASSUME ~(\E m \in Node, s \in Topic : StoreRetained(m, s)),
               ~(\E m \in net : HandleRetainedSync(m)),
               ~(\E m \in Node : Crash(m))
        PROVE  store' = store
    BY <2>9 DEF Next, vars, Tick, SendSync, FinishSync, Learn, Forget, Start
  <2>10. ASSUME NEW m \in Node, Crash(m) PROVE store'[n][t] = store[n][t]
    BY <1>0, <1>1, <2>10 DEF Crash, TypeOK
  <2>11. QED
    BY <2>6, <2>7, <2>8, <2>9, <2>10
<1>3. CASE ~(i <= count)
  <2>1. PICK m \in Node, s \in Topic : StoreRetained(m, s)
    <3>1. i <= count'
      BY DEF LastOwn
    <3>2. count' # count
      BY <1>3, <3>1
    <3>3. QED
      BY <3>2 DEF Next, vars, Tick, SendSync, FinishSync, HandleRetainedSync, Learn, Forget, Crash, Start
  <2>2. i = count + 1 /\ count + 1 \in Number
    BY <1>0, <1>3, <2>1 DEF StoreRetained, LastOwn, Number
  <2>3. published'[i] = [node |-> m, topic |-> s, at |-> clock]
    BY <1>0, <2>1, <2>2 DEF StoreRetained, TypeOK
  <2>4. m = n /\ s = t
    BY <2>3 DEF LastOwn
  <2>5. store'[n][t] = [payload |-> i, timestamp |-> clock, source_node |-> n]
    BY <1>0, <2>1, <2>2, <2>4 DEF StoreRetained, TypeOK
  <2>6. store'[n][t] # Nothing
    <3>1. [payload |-> i, timestamp |-> clock, source_node |-> n] \in RetainedMessage
      BY <1>0 DEF RetainedMessage, TypeOK
    <3>2. QED
      BY <2>5, <3>1, RetainedAssumption
  <2>7. QED
    BY <2>5, <2>6 DEF Holds, Retains
<1>4. QED
  BY <1>2, <1>3

\* A node keeps its own last publication of a topic until a message stamped
\* with a later second replaces it or the node stops.
THEOREM OwnPublicationsHold == Spec => []OwnWritesHold
<1>1. IInv /\ [Next]_vars => IInv'
  BY NextType, NextPublished, NextCopies DEF IInv
<1>2. Init => OwnWritesHold
  BY DEF Init, OwnWritesHold, LastOwn, Number
<1>3. QED
  BY InitInv, NextHolds, <1>1, <1>2, PTL DEF Spec
-----------------------------------------------------------------------------
(* Agreement of the stores when publications come one at a time.           *)

\* Nothing is lost, no node stops, and each publication waits for the one
\* before to be handled everywhere and for a second of its own.
Undisturbed == Calm /\ ~Lossy /\ MaxFaults = 0

\* All nodes run and know each other.
FullMesh ==
  /\ running = Node
  /\ view = [n \in Node |-> [p \in Node |-> IF p = n THEN "absent" ELSE "full"]]

\* What the last publication has to tell p.
News(p) == [to |-> p, topic |-> published[count].topic, payload |-> count,
            source_node |-> published[count].node]

\* p is still to hear of the last publication.
Awaits(p) ==
  \/ News(p) \in net
  \/ count \in syncing /\ p \notin sent[count] \cup {published[count].node}

\* p retains the last publication; all nodes retain the same for t.
Holding(p, t) == Retains(p, t) /\ store[p][t].payload = count

Agree(t) ==
  \A n, m \in Node : /\ Retains(n, t) <=> Retains(m, t)
                     /\ Retains(n, t) => store[n][t].payload = store[m][t].payload

\* Only the last publication is on its way, to nodes that have been sent it.
OnePublication ==
  /\ syncing \subseteq {count}
  /\ \A i \in Number : i > count => sent[i] = {}
  /\ count \in syncing => due[count] = Node \ (sent[count] \cup {published[count].node})
  /\ IF count = 0
       THEN net = {}
       ELSE net \subseteq {News(p) : p \in sent[count] \ {published[count].node}}

\* The stores agree but for the topic of the last publication; there, a node
\* retains it or awaits it, and what it retains until then is from an earlier
\* second, so that the message will replace it.
LastSpreads ==
  IF count = 0
    THEN \A n \in Node, t \in Topic : ~Retains(n, t)
    ELSE LET t == published[count].topic IN
         /\ \A s \in Topic \ {t} : Agree(s)
         /\ \A p \in Node :
              /\ Holding(p, t) \/ Awaits(p)
              /\ Awaits(p) /\ Retains(p, t) => store[p][t].timestamp < clock

CalmInv == FullMesh /\ OnePublication /\ LastSpreads

\* Without faults the cluster stays a full mesh, and only publications, their
\* messages and the clock are left to take steps.
LEMMA OnlyPublications ==
  ASSUME Undisturbed, TypeOK, FullMesh, [Next]_vars
  PROVE  /\ FullMesh'
         /\ \/ Tick
            \/ \E n \in Node, t \in Topic : StoreRetained(n, t)
            \/ \E i \in Number, p \in Node : SendSync(i, p)
            \/ \E i \in Number : FinishSync(i)
            \/ \E m \in net : HandleRetainedSync(m)
            \/ UNCHANGED vars
<1>1. ~Fault
  BY DEF Undisturbed, TypeOK, Fault
<1>2. ASSUME NEW n \in Node PROVE ~Crash(n) /\ ~Start(n)
  BY <1>1 DEF FullMesh, Crash, Start, Peers!Start
<1>3. ASSUME NEW n \in Node, NEW p \in Node PROVE ~Forget(n, p)
  BY <1>1 DEF Forget
<1>4. ASSUME NEW n \in Node, NEW p \in Node, NEW entry \in {"bare", "heard", "full"}, Learn(n, p, entry)
      PROVE  FALSE
  <2>1. CASE p = n
    <3>1. [view[n] EXCEPT ![p] = entry][n] = entry
      BY <2>1 DEF TypeOK
    <3>2. QED
      BY <1>4, <3>1 DEF Learn, Peers!Learn
  <2>2. CASE p # n
    BY <1>1, <1>4, <2>2 DEF Learn, FullMesh
  <2>3. QED
    BY <2>1, <2>2
<1>5. \/ Tick
      \/ \E n \in Node, t \in Topic : StoreRetained(n, t)
      \/ \E i \in Number, p \in Node : SendSync(i, p)
      \/ \E i \in Number : FinishSync(i)
      \/ \E m \in net : HandleRetainedSync(m)
      \/ UNCHANGED vars
  BY <1>2, <1>3, <1>4 DEF Next
<1>6. UNCHANGED <<running, view>>
  BY <1>5 DEF table, vars, Tick, StoreRetained, SendSync, FinishSync, HandleRetainedSync
<1>7. FullMesh'
  BY <1>6 DEF FullMesh
<1>8. QED
  BY <1>5, <1>7

\* Once everything is handled the stores agree.
LEMMA QuietAgrees ==
  ASSUME TypeOK, Published, LastSpreads, Quiet
  PROVE  \A t \in Topic : Agree(t)
<1>1. CASE count = 0
  BY <1>1 DEF LastSpreads, Agree
<1>2. CASE count # 0
  <2>1. \A p \in Node : ~Awaits(p)
    BY DEF Quiet, Awaits
  <2>2. \A p \in Node : Holding(p, published[count].topic)
    BY <1>2, <2>1 DEF LastSpreads
  <2>3. Agree(published[count].topic)
    BY <2>2 DEF Agree, Holding
  <2>4. QED
    BY <1>2, <2>3 DEF LastSpreads
<1>3. QED
  BY <1>1, <1>2

\* A step that leaves what is published, on its way and retained as it is, and
\* does not turn back the clock, keeps the agreement.
LEMMA SameNews ==
  ASSUME TypeOK, Published, OnePublication, LastSpreads,
         UNCHANGED <<count, published, store, syncing, sent, due, net>>, clock' \in Nat,
         clock <= clock'
  PROVE  OnePublication' /\ LastSpreads'
<1>1. \A p \in Node : News(p)' = News(p) /\ Awaits(p)' = Awaits(p)
  BY DEF News, Awaits
<1>2. \A p \in Node, t \in Topic : /\ Retains(p, t)' = Retains(p, t)
                                   /\ Holding(p, t)' = Holding(p, t)
                                   /\ Agree(t)' = Agree(t)
  BY DEF Retains, Holding, Agree
<1>3. OnePublication'
  <2>1. \A p : News(p)' = News(p)
    BY DEF News
  <2>2. QED
    BY <2>1 DEF OnePublication
<1>4. CASE count = 0
  BY <1>2, <1>3, <1>4 DEF LastSpreads
<1>5. CASE count # 0
  <2> DEFINE t == published[count].topic
  <2>1. \A s \in Topic \ {t} : Agree(s)'
    <3>1. \A s \in Topic \ {t} : Agree(s)
      BY <1>5 DEF LastSpreads
    <3>2. QED
      BY <3>1 DEF Agree, Retains
  <2>2. ASSUME NEW p \in Node PROVE Holding(p, t)' \/ Awaits(p)'
    BY <1>1, <1>5 DEF LastSpreads, Holding, Retains
  <2>3. ASSUME NEW p \in Node, Awaits(p)', Retains(p, t)' PROVE store'[p][t].timestamp < clock'
    <3>1. store[p][t].timestamp < clock /\ Retains(p, t)
      BY <1>1, <1>5, <2>3 DEF LastSpreads, Retains
    <3>2. store[p][t].timestamp < clock'
      <4>1. t \in Topic
        BY <1>5, Counters, PublishedIsSomething DEF TypeOK, Number
      <4>2. store[p][t].timestamp \in Nat /\ clock \in Nat
        BY <3>1, <4>1, RetainedType, RetainedAssumption, Counters DEF RetainedMessage
      <4>3. QED
        BY <3>1, <4>2
    <3>3. QED
      BY <3>2
  <2>4. QED
    BY <1>3, <1>5, <2>1, <2>2, <2>3 DEF LastSpreads
<1>6. QED
  BY <1>4, <1>5

\* A publication finds all stores in agreement and older than itself; its
\* messages find the stores as it found them.
LEMMA NextCalm ==
  ASSUME Undisturbed, IInv, CalmInv, [Next]_vars
  PROVE  CalmInv'
<1>0. /\ clock \in Nat /\ count \in Nat /\ MaxPublish \in Nat
      /\ TypeOK /\ Published /\ FullMesh /\ OnePublication /\ LastSpreads
      /\ store \in [Node -> [Topic -> RetainedMessage \cup {Nothing}]]
      /\ sent \in [Number -> SUBSET Node]
      /\ due \in [Number -> SUBSET Node]
      /\ published \in [Number -> Publication \cup {Nothing}]
      /\ syncing \subseteq Number
  BY Counters DEF TypeOK, IInv, CalmInv
<1>a. ASSUME count # 0
      PROVE  /\ count \in Number /\ published[count].node \in Node
             /\ published[count].topic \in Topic
  <2>1. count \in Number
    BY <1>0, <1>a DEF TypeOK, Number
  <2>2. QED
    BY <1>0, <2>1, PublishedIsSomething
<1>1. ASSUME Tick PROVE OnePublication' /\ LastSpreads'
  BY <1>0, <1>1, SameNews DEF Tick
<1>2. ASSUME NEW n \in Node, NEW t \in Topic, StoreRetained(n, t)
      PROVE  OnePublication' /\ LastSpreads'
  <2>1. Quiet /\ Spaced
    BY <1>2 DEF StoreRetained, Undisturbed
  <2>2. (\A s \in Topic : Agree(s)) /\ net = {} /\ syncing = {}
    BY <1>0, <2>1, QuietAgrees DEF Quiet
  <2>3. /\ count' = count + 1 /\ count + 1 \in Number /\ count' # 0
        /\ syncing' = {count'} /\ net' = {} /\ sent' = sent /\ clock' = clock
        /\ published' = [published EXCEPT ![count + 1] = [node |-> n, topic |-> t, at |-> clock]]
        /\ store' = [store EXCEPT ![n][t] =
                       [payload |-> count + 1, timestamp |-> clock, source_node |-> n]]
        /\ due' = [due EXCEPT ![count + 1] = Known(n)]
    BY <1>0, <1>2, <2>2 DEF StoreRetained, Number
  <2>4. /\ published'[count'].topic = t /\ published'[count'].node = n
        /\ sent[count'] = {}
    <3>1. published'[count'] = [node |-> n, topic |-> t, at |-> clock]
      BY <1>0, <2>3
    <3>2. sent[count'] = {}
      BY <1>0, <2>3 DEF OnePublication
    <3>3. QED
      BY <3>1, <3>2
  <2>5. /\ store'[n][t] = [payload |-> count', timestamp |-> clock, source_node |-> n]
        /\ store'[n][t] # Nothing
    <3>1. store'[n][t] = [payload |-> count', timestamp |-> clock, source_node |-> n]
      BY <1>0, <2>3
    <3>2. store'[n][t] \in RetainedMessage
      BY <1>0, <2>3, <3>1 DEF RetainedMessage, TypeOK
    <3>3. QED
      BY <3>1, <3>2, RetainedAssumption
  <2>6. \A m \in Node, s \in Topic : ~(m = n /\ s = t) => store'[m][s] = store[m][s]
    BY <1>0, <2>3
  <2>7. OnePublication'
    <3>1. \A i \in Number : i > count' => sent'[i] = {}
      BY <1>0, <2>3 DEF OnePublication, Number
    <3>2. due'[count'] = Known(n) /\ Known(n) = Node \ {n}
      <4>1. due'[count'] = Known(n)
        BY <1>0, <2>3
      <4>2. Known(n) = Node \ {n}
        BY <1>0 DEF Known, FullMesh
      <4>3. QED
        BY <4>1, <4>2
    <3>3. due'[count'] = Node \ (sent'[count'] \cup {published'[count'].node})
      BY <2>3, <2>4, <3>2
    <3>4. QED
      BY <2>3, <3>1, <3>3 DEF OnePublication
  <2>8. \A s \in Topic \ {t} : Agree(s)'
    BY <2>2, <2>6 DEF Agree, Retains
  <2>9. ASSUME NEW p \in Node
        PROVE  /\ Holding(p, t)' \/ Awaits(p)'
               /\ Awaits(p)' /\ Retains(p, t)' => store'[p][t].timestamp < clock'
    <3>1. CASE p = n
      <4>1. Holding(p, t)'
        BY <2>5, <3>1 DEF Holding, Retains
      <4>2. ~Awaits(p)'
        BY <2>3, <2>4, <3>1 DEF Awaits
      <4>3. QED
        BY <4>1, <4>2
    <3>2. CASE p # n
      <4>1. Awaits(p)'
        BY <2>3, <2>4, <3>2 DEF Awaits
      <4>2. Retains(p, t)' => store'[p][t].timestamp < clock'
        BY <2>1, <2>3, <2>6, <3>2 DEF Spaced, Retains
      <4>3. QED
        BY <4>1, <4>2
    <3>3. QED
      BY <3>1, <3>2
  <2>10. QED
    BY <2>3, <2>4, <2>7, <2>8, <2>9 DEF LastSpreads
<1>b. ASSUME UNCHANGED <<count, published, store, clock>>, OnePublication', count # 0,
             \A p \in Node : Awaits(p)' <=> Awaits(p)
      PROVE  LastSpreads'
  <2>1. \A p \in Node, t \in Topic : /\ Retains(p, t)' = Retains(p, t)
                                     /\ Holding(p, t)' = Holding(p, t)
                                     /\ Agree(t)' = Agree(t)
    BY <1>b DEF Retains, Holding, Agree
  <2>2. QED
    BY <1>0, <1>a, <1>b, <2>1 DEF LastSpreads
<1>3. ASSUME NEW i \in Number, NEW p \in Node, SendSync(i, p)
      PROVE  OnePublication' /\ LastSpreads'
  <2>1. i = count /\ count # 0 /\ count \in syncing
    BY <1>0, <1>3 DEF SendSync, OnePublication, Number
  <2>2. p # published[count].node /\ p \notin sent[count]
        /\ view[published[count].node][p] = "full" /\ p \in running
    BY <1>0, <1>3, <1>a, <2>1 DEF SendSync, Known, FullMesh
  <2>3. /\ UNCHANGED <<count, published, store, clock, syncing>>
        /\ net' = net \cup {News(p)}
        /\ sent' = [sent EXCEPT ![count] = sent[count] \cup {p}]
        /\ due' = [due EXCEPT ![count] = due[count] \ {p}]
    BY <1>3, <2>1, <2>2 DEF SendSync, Undisturbed, News
  <2>4. \A q : News(q)' = News(q)
    BY <2>3 DEF News
  <2>5. sent'[count] = sent[count] \cup {p} /\ \A j \in Number : j # count => sent'[j] = sent[j]
    BY <1>0, <1>a, <2>1, <2>3
  <2>6. OnePublication'
    <3>1. net' \subseteq {News(q) : q \in sent'[count] \ {published[count].node}}
      BY <1>0, <2>1, <2>2, <2>3, <2>5 DEF OnePublication
    <3>2. due'[count] = Node \ (sent'[count] \cup {published[count].node})
      <4>1. due'[count] = due[count] \ {p}
        BY <1>0, <1>a, <2>1, <2>3
      <4>2. due[count] = Node \ (sent[count] \cup {published[count].node})
        BY <1>0, <2>1 DEF OnePublication
      <4>3. QED
        BY <2>5, <4>1, <4>2
    <3>3. QED
      BY <1>0, <2>1, <2>3, <2>4, <2>5, <3>1, <3>2 DEF OnePublication, Number
  <2>7. ASSUME NEW q \in Node PROVE Awaits(q)' <=> Awaits(q)
    <3>1. CASE q = p
      BY <2>1, <2>2, <2>3, <2>4, <3>1 DEF Awaits
    <3>2. CASE q # p
      <4>1. News(q) # News(p)
        BY <3>2 DEF News
      <4>2. QED
        BY <2>3, <2>4, <2>5, <3>2, <4>1 DEF Awaits
    <3>3. QED
      BY <3>1, <3>2
  <2>8. QED
    BY <1>b, <2>1, <2>3, <2>6, <2>7
<1>4. ASSUME NEW i \in Number, FinishSync(i) PROVE OnePublication' /\ LastSpreads'
  <2>1. i = count /\ count # 0 /\ count \in syncing
    BY <1>0, <1>4 DEF FinishSync, OnePublication, Number
  <2>2. /\ UNCHANGED <<count, published, store, clock, net, sent, due>>
        /\ syncing' = {} /\ due[count] = {}
    BY <1>0, <1>4, <2>1 DEF FinishSync, OnePublication
  <2>3. \A q : News(q)' = News(q)
    BY <2>2 DEF News
  <2>4. OnePublication'
    BY <1>0, <2>1, <2>2, <2>3 DEF OnePublication
  <2>5. ASSUME NEW q \in Node PROVE Awaits(q)' <=> Awaits(q)
    <3>1. q \in sent[count] \cup {published[count].node}
      BY <1>0, <2>1, <2>2 DEF OnePublication
    <3>2. QED
      BY <2>2, <2>3, <3>1 DEF Awaits
  <2>6. QED
    BY <1>b, <2>1, <2>2, <2>4, <2>5
<1>5. ASSUME NEW m \in net, HandleRetainedSync(m) PROVE OnePublication' /\ LastSpreads'
  <2> DEFINE t == published[count].topic
  <2>1. count # 0
    BY <1>0 DEF OnePublication
  <2>2. PICK p \in sent[count] \ {published[count].node} : m = News(p)
    BY <1>0, <2>1 DEF OnePublication
  <2>3. p \in Node /\ t \in Topic /\ m.to = p /\ m.topic = t /\ m.payload = count
        /\ m.source_node = published[count].node
    BY <1>0, <1>a, <2>1, <2>2 DEF News
  <2>4. Awaits(p)
    BY <2>2 DEF Awaits
  <2>5. ~(Retains(p, t) /\ store[p][t].timestamp >= clock)
    <3>1. Retains(p, t) => store[p][t].timestamp < clock
      BY <1>0, <2>1, <2>3, <2>4 DEF LastSpreads
    <3>2. Retains(p, t) => store[p][t].timestamp \in Nat
      BY <1>0, <2>3, RetainedType, RetainedAssumption DEF RetainedMessage
    <3>3. QED
      BY <1>0, <3>1, <3>2
  <2>6. /\ net' = net \ {m} /\ UNCHANGED <<clock, count, published, syncing, sent, due>>
        /\ store' = [store EXCEPT ![p][t] =
                       [payload |-> count, timestamp |-> clock,
                        source_node |-> published[count].node]]
    BY <1>5, <2>3, <2>5 DEF HandleRetainedSync
  <2>7. Holding(p, t)'
    <3>1. store'[p][t] = [payload |-> count, timestamp |-> clock,
                          source_node |-> published[count].node]
      BY <1>0, <2>3, <2>6
    <3>2. store'[p][t] \in RetainedMessage
      BY <1>0, <1>a, <2>1, <3>1 DEF RetainedMessage, TypeOK
    <3>3. store'[p][t] # Nothing
      BY <3>2, RetainedAssumption
    <3>4. QED
      BY <2>6, <3>1, <3>3 DEF Holding, Retains
  <2>8. \A q : News(q)' = News(q)
    BY <2>6 DEF News
  <2>9. ~Awaits(p)'
    BY <2>2, <2>6, <2>8 DEF Awaits
  <2>10. ASSUME NEW q \in Node, q # p PROVE Awaits(q)' <=> Awaits(q)
    <3>1. News(q) # News(p)
      BY <2>10 DEF News
    <3>2. QED
      BY <2>2, <2>6, <2>8, <3>1 DEF Awaits
  <2>11. \A q \in Node, s \in Topic : ~(q = p /\ s = t) => store'[q][s] = store[q][s]
    BY <1>0, <2>3, <2>6
  <2>12. OnePublication'
    BY <1>0, <2>1, <2>6, <2>8 DEF OnePublication
  <2>13. \A s \in Topic \ {t} : Agree(s)'
    <3>1. \A s \in Topic \ {t} : Agree(s)
      BY <1>0, <2>1 DEF LastSpreads
    <3>2. QED
      BY <2>11, <3>1 DEF Agree, Retains
  <2>14. ASSUME NEW q \in Node
         PROVE  /\ Holding(q, t)' \/ Awaits(q)'
                /\ Awaits(q)' /\ Retains(q, t)' => store'[q][t].timestamp < clock'
    <3>1. CASE q = p
      BY <2>7, <2>9, <3>1
    <3>2. CASE q # p
      <4>1. store'[q][t] = store[q][t]
        BY <2>3, <2>11, <3>2
      <4>2. /\ Holding(q, t) \/ Awaits(q)
            /\ Awaits(q) /\ Retains(q, t) => store[q][t].timestamp < clock
        BY <1>0, <2>1 DEF LastSpreads
      <4>3. QED
        BY <2>6, <2>10, <3>2, <4>1, <4>2 DEF Holding, Retains
    <3>3. QED
      BY <3>1, <3>2
  <2>15. QED
    BY <2>1, <2>6, <2>12, <2>13, <2>14 DEF LastSpreads
<1>6. ASSUME UNCHANGED vars PROVE OnePublication' /\ LastSpreads'
  BY <1>0, <1>6, SameNews DEF vars
<1>7. FullMesh' /\ OnePublication' /\ LastSpreads'
  BY <1>0, <1>1, <1>2, <1>3, <1>4, <1>5, <1>6, OnlyPublications
<1>8. QED
  BY <1>7 DEF CalmInv

\* The initial cluster is a full mesh of empty stores.
LEMMA InitCalm == Init => CalmInv
<1> SUFFICES ASSUME Init PROVE CalmInv
  OBVIOUS
<1>1. FullMesh
  BY DEF Init, FullMesh
<1>2. OnePublication
  BY DEF Init, OnePublication
<1>3. LastSpreads
  BY DEF Init, LastSpreads, Retains
<1>4. QED
  BY <1>1, <1>2, <1>3 DEF CalmInv

\* If publications come one at a time, each in a second of its own, and
\* nothing is lost, then whenever nothing is on its way all nodes retain the
\* same payload for every topic.  The second of its own is what store_synced
\* needs to take the message: it compares whole seconds and refuses an equal
\* one.
THEOREM QuietStoresConverge ==
  ASSUME Undisturbed
  PROVE  Spec => []Converged
<1>1. IInv /\ CalmInv /\ [Next]_vars => IInv' /\ CalmInv'
  BY NextType, NextPublished, NextCopies, NextCalm DEF IInv
<1>2. IInv /\ CalmInv => Converged
  BY QuietAgrees DEF IInv, CalmInv, Converged, Agree
<1>3. QED
  BY InitInv, InitCalm, <1>1, <1>2, PTL DEF Spec
=============================================================================
