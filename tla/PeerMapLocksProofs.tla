------------------------- MODULE PeerMapLocksProofs -------------------------
(***************************************************************************)
(* Proofs about PeerMapLocks for any table, any number of tasks, and any   *)
(* number of worker threads.                                               *)
(***************************************************************************)
EXTENDS PeerMapLocks, FiniteSetTheorems, WellFoundedInduction, TLAPS

-----------------------------------------------------------------------------
(* The inductive invariant.                                                *)

\* Shards are locked in ascending order, one at a time, and only by iterators.
Ascending ==
  /\ \A t \in Single : holds[t] = 0
  /\ \A t \in Task : phase[t] = "locking" => holds[t] < wants[t]

IInv == TypeOK /\ Ascending

\* What a task that locks a shard wants is a shard.
LEMMA WantsShard ==
  ASSUME TypeOK, NEW t \in Locking
  PROVE  t \in Task /\ wants[t] \in Shard /\ wants[t] \in Nat /\ wants[t] <= Shards
BY LockAssumption DEF TypeOK, Locking, Shard

\* Going on from a shard keeps the order.
LEMMA GoOnKeeps ==
  ASSUME IInv, NEW t \in Task \ Single, NEW s \in Shard, GoOn(t, s),
         left' \in [Walker -> Nat], down' \subseteq Shard
  PROVE  IInv'
<1> USE DEF IInv, TypeOK, Ascending, Locking
<1>1. s \in Nat /\ s # 0 /\ s \in 0..Shards /\ Shards \in Nat
  BY LockAssumption DEF Shard
<1>2. CASE s < Shards
  <2>1. /\ holds' = [holds EXCEPT ![t] = s]
        /\ wants' = [wants EXCEPT ![t] = s + 1]
        /\ phase' = [phase EXCEPT ![t] = "locking"]
    BY <1>2 DEF GoOn
  <2>2. s + 1 \in 0..Shards /\ s + 1 # 0 /\ s < s + 1
    BY <1>1, <1>2
  <2>3. QED
    BY <1>1, <2>1, <2>2 DEF Suspended, Single, Task
<1>3. CASE ~(s < Shards)
  <2>1. PICK e \in {"idle", "done"} : phase' = [phase EXCEPT ![t] = e]
    BY <1>3 DEF GoOn, Over
  <2>2. /\ holds' = [holds EXCEPT ![t] = 0]
        /\ wants' = [wants EXCEPT ![t] = 0]
    BY <1>3 DEF GoOn
  <2>3. 0 \in 0..Shards
    BY <1>1
  <2>4. QED
    BY <2>1, <2>2, <2>3 DEF Suspended, Single, Task
<1>4. QED
  BY <1>2, <1>3

LEMMA LocksInvNext == IInv /\ [Next]_vars => IInv'
<1> SUFFICES ASSUME IInv, [Next]_vars PROVE IInv'
  OBVIOUS
<1> USE DEF IInv, TypeOK, Ascending, Locking
<1>0. Shards \in Nat /\ Shards # 0 /\ 0 \in 0..Shards /\ Shard = 1..Shards
  BY LockAssumption DEF Shard
<1>1. ASSUME NEW t \in Task, Arrive(t) PROVE IInv'
  BY <1>1 DEF Arrive, Suspended
<1>2. ASSUME NEW t \in Task, Begin(t) PROVE IInv'
  <2>1. PICK s \in First(t) : wants' = [wants EXCEPT ![t] = s]
    BY <1>2 DEF Begin
  <2>2. s \in Shard
    BY <1>0, LockAssumption DEF First
  <2>3. s \in 0..Shards /\ s # 0 /\ 0 < s
    BY <1>0, <2>2
  <2>4. CASE t = Checker /\ down # {}
    <3>1. phase' = [phase EXCEPT ![t] = "removing"]
      BY <1>2, <2>4 DEF Begin
    <3>2. QED
      BY <1>2, <2>1, <2>3, <2>4, <3>1 DEF Begin, Suspended
  <2>5. CASE ~(t = Checker /\ down # {})
    <3>1. phase' = [phase EXCEPT ![t] = "locking"]
      BY <1>2, <2>5 DEF Begin
    <3>2. QED
      BY <1>2, <2>1, <2>3, <3>1 DEF Begin, Suspended
  <2>6. QED
    BY <2>4, <2>5
<1>3. ASSUME NEW t \in Walker \cup Lister, ReadShard(t) PROVE IInv'
  <2>1. t \in Task \ Single /\ t # Checker
    BY LockAssumption DEF Task
  <2>2. wants[t] \in Shard
    BY <1>0, <1>3, <2>1 DEF ReadShard
  <2>3. CASE t \in Walker /\ Entries[wants[t]] > 0
    <3>1. Entries[wants[t]] - 1 \in Nat
      BY <2>2, <2>3, LockAssumption
    <3>2. /\ phase' = [phase EXCEPT ![t] = "sending"]
          /\ holds' = [holds EXCEPT ![t] = wants[t]]
          /\ wants' = [wants EXCEPT ![t] = 0]
          /\ left' = [left EXCEPT ![t] = Entries[wants[t]] - 1]
          /\ down' = down
      BY <1>3, <2>3 DEF ReadShard
    <3>3. wants[t] \in 0..Shards
      BY <2>1
    <3>4. t \in Task \ Single /\ t \in Walker
      BY <2>1, <2>3
    <3>5. TypeOK'
      BY <1>0, <3>1, <3>2, <3>3, <3>4 DEF Suspended
    <3>6. Ascending'
      BY <3>2, <3>4
    <3>7. QED
      BY <3>5, <3>6
  <2>4. CASE ~(t \in Walker /\ Entries[wants[t]] > 0)
    BY <1>3, <2>1, <2>2, <2>4, GoOnKeeps DEF ReadShard
  <2>5. QED
    BY <2>3, <2>4
<1>4. ASSUME NEW w \in Walker, EndSend(w) PROVE IInv'
  BY <1>4 DEF EndSend, Suspended, Task
<1>5. ASSUME NEW w \in Walker, NextPeer(w) PROVE IInv'
  <2>1. w \in Task \ Single /\ holds[w] \in Shard
    BY <1>0, <1>5, LockAssumption DEF NextPeer, Task
  <2>2. CASE left[w] > 0
    <3>1. left[w] - 1 \in Nat
      BY <2>2
    <3>2. QED
      BY <1>5, <2>1, <2>2, <3>1 DEF NextPeer, Suspended
  <2>3. CASE ~(left[w] > 0)
    BY <1>5, <2>1, <2>3, GoOnKeeps DEF NextPeer
  <2>4. QED
    BY <2>2, <2>3
<1>6. ASSUME NEW t \in Single, LockShard(t) PROVE IInv'
  BY <1>0, <1>6 DEF LockShard, Suspended, Task
<1>7. CASE ScanShard
  <2>1. Checker \in Task \ Single /\ wants[Checker] \in Shard
    BY <1>0, <1>7, LockAssumption DEF ScanShard, Task
  <2>2. down' \subseteq Shard /\ left' \in [Walker -> Nat]
    BY <1>7, <2>1 DEF ScanShard
  <2>3. CASE wants[Checker] = Shards /\ down' # {}
    <3>1. PICK d \in down' : wants' = [wants EXCEPT ![Checker] = d]
      BY <1>7, <2>3 DEF ScanShard
    <3>2. d \in 0..Shards /\ d # 0
      BY <1>0, <2>2
    <3>3. /\ phase' = [phase EXCEPT ![Checker] = "removing"]
          /\ holds' = [holds EXCEPT ![Checker] = 0]
      BY <1>7, <2>3 DEF ScanShard
    <3>4. TypeOK'
      BY <1>0, <2>1, <2>2, <3>1, <3>2, <3>3 DEF Suspended
    <3>5. Ascending'
      BY <2>1, <3>1, <3>3
    <3>6. QED
      BY <3>4, <3>5
  <2>4. CASE ~(wants[Checker] = Shards /\ down' # {})
    BY <1>7, <2>1, <2>2, <2>4, GoOnKeeps DEF ScanShard
  <2>5. QED
    BY <2>3, <2>4
<1>8. CASE RemovePeer
  <2>1. Checker \in Task
    BY DEF Task
  <2>2. PICK p \in {"idle", "ready"} : phase' = [phase EXCEPT ![Checker] = p]
    BY <1>8 DEF RemovePeer
  <2>3. holds[Checker] = 0
    BY <1>8, <2>1, LockAssumption DEF RemovePeer, Suspended
  <2>4. down' \subseteq Shard
    BY <1>8 DEF RemovePeer
  <2>5. QED
    BY <1>0, <1>8, <2>1, <2>2, <2>3, <2>4 DEF RemovePeer, Suspended
<1>9. CASE UNCHANGED vars
  BY <1>9 DEF vars, Suspended
<1>10. QED
  BY <1>1, <1>2, <1>3, <1>4, <1>5, <1>6, <1>7, <1>8, <1>9 DEF Next, Proceed

LEMMA LocksInv == Spec => []IInv
<1>1. Init => IInv
  BY LockAssumption DEF Init, IInv, TypeOK, Ascending, Locking, Single, Task, Shard
<1>2. QED
  BY <1>1, LocksInvNext, PTL DEF Spec

\* Every reachable state is well typed: who locks a shard has a thread, and who
\* keeps one without a thread is a suspended walker.
THEOREM LocksTypeCorrect == Spec => []TypeOK
<1>1. IInv => TypeOK
  BY DEF IInv
<1>2. QED
  BY <1>1, LocksInv, PTL

-----------------------------------------------------------------------------
(* The deadlock.                                                           *)

\* A step that leaves every guard and every waiting thread does not help.
LEMMA StuckKept ==
  ASSUME Stuck, UNCHANGED <<holds, wants>>, Locking' = Locking
  PROVE  Stuck'
BY DEF Stuck, WorkerFree, Granted, Readable, Writable

\* No step leads out of it.
LEMMA StuckNext == TypeOK /\ Stuck /\ [Next]_vars => Stuck'
<1> SUFFICES ASSUME TypeOK, Stuck, [Next]_vars PROVE Stuck'
  OBVIOUS
<1>1. ~WorkerFree
  BY DEF Stuck
<1>2. ASSUME NEW t \in Task, t \in Locking, Granted(t) PROVE FALSE
  BY <1>2 DEF Stuck
<1>3. ASSUME NEW t \in Task, Arrive(t) PROVE Stuck'
  <2>1. Locking' = Locking
    BY <1>3 DEF Arrive, Locking, TypeOK
  <2>2. QED
    BY <1>3, <2>1, StuckKept DEF Arrive
<1>4. ASSUME NEW t \in Task, Proceed(t) PROVE FALSE
  <2>1. ASSUME phase[t] \in {"locking", "removing"}, Granted(t) PROVE FALSE
    BY <1>2, <2>1 DEF Locking
  <2>2. CASE Begin(t) \/ NextPeer(t)
    BY <1>1, <2>2 DEF Begin, NextPeer
  <2>3. CASE ReadShard(t) \/ LockShard(t)
    BY <2>1, <2>3 DEF ReadShard, LockShard
  <2>4. CASE t = Checker /\ (ScanShard \/ RemovePeer)
    BY <2>1, <2>4 DEF ScanShard, RemovePeer
  <2>5. QED
    BY <1>4, <2>2, <2>3, <2>4 DEF Proceed
<1>5. ASSUME NEW w \in Walker, EndSend(w) PROVE Stuck'
  <2>1. Locking' = Locking
    BY <1>5 DEF EndSend, Locking, TypeOK, Task
  <2>2. QED
    BY <1>5, <2>1, StuckKept DEF EndSend
<1>6. CASE UNCHANGED vars
  <2>1. Locking' = Locking
    BY <1>6 DEF vars, Locking
  <2>2. QED
    BY <1>6, <2>1, StuckKept DEF vars
<1>7. QED
  BY <1>3, <1>4, <1>5, <1>6 DEF Next

\* Once every thread waits for a shard that no thread is left to release, it
\* stays so, whatever the connections and the messages do.
THEOREM DeadlockIsForEver == Spec => StuckForEver
<1>1. TypeOK /\ [Next]_vars => [Stuck => Stuck']_vars
  BY StuckNext
<1>2. QED
  BY <1>1, LocksTypeCorrect, PTL DEF Spec, StuckForEver

\* Without a suspended walker, who refuses a shard is himself waiting for a
\* higher one.
LEMMA RefusedByHigher ==
  ASSUME IInv, NEW t \in Locking, ~Granted(t), \A w \in Walker : ~Suspended(w)
  PROVE  \E u \in Locking : wants[u] > wants[t]
<1>1. wants[t] \in Nat /\ wants[t] # 0
  BY WantsShard, LockAssumption DEF IInv, Shard
<1>2. PICK u \in Task : holds[u] = wants[t]
  <2>1. Checker \in Task
    BY DEF Task
  <2>2. QED
    BY <2>1 DEF Granted, Readable, Writable
<1>3. phase[u] = "locking"
  BY <1>1, <1>2 DEF IInv, TypeOK
<1>4. u \in Locking /\ holds[u] < wants[u]
  BY <1>3 DEF Locking, IInv, Ascending
<1>5. wants[u] \in Nat
  BY <1>4, WantsShard DEF IInv
<1>6. QED
  BY <1>1, <1>2, <1>4, <1>5

\* The threads that wait for each other form no circle, so a deadlock has a
\* walker that is suspended.
LEMMA SomebodySuspended == IInv => OnlySendsDeadlock
<1> SUFFICES ASSUME IInv, Stuck, \A w \in Walker : ~Suspended(w) PROVE FALSE
  BY DEF OnlySendsDeadlock
<1> DEFINE Above(t) == {u \in Locking : wants[u] > wants[t]}
           Aboves == {Above(t) : t \in Locking}
<1>1. IsFiniteSet(Locking)
  BY LockAssumption, FS_Subset DEF Locking
<1>2. Locking # {}
  <2>1. SUFFICES ASSUME Locking = {} PROVE WorkerFree
    BY DEF Stuck
  <2>2. Cardinality(Locking) = 0
    BY <2>1, FS_EmptySet
  <2>3. QED
    BY <2>2, LockAssumption DEF WorkerFree
<1>3. IsWellFoundedOn(StrictSubsetOrdering(Locking), FiniteSubsetsOf(Locking))
  BY FS_StrictSubsetOrderingWellFounded
<1>4. Aboves \subseteq FiniteSubsetsOf(Locking)
  <2>1. ASSUME NEW t \in Locking PROVE Above(t) \in SUBSET Locking /\ IsFiniteSet(Above(t))
    BY <1>1, FS_Subset
  <2>2. QED
    BY <2>1 DEF FiniteSubsetsOf
<1>5. Aboves # {}
  BY <1>2
<1>6. PICK x \in Aboves : \A y \in Aboves : ~(<<y, x>> \in StrictSubsetOrdering(Locking))
  <2> HIDE DEF Aboves
  <2>1. QED
    BY <1>3, <1>4, <1>5, WFMin
<1>7. PICK t \in Locking : x = Above(t)
  OBVIOUS
<1>8. PICK u \in Locking : wants[u] > wants[t]
  BY RefusedByHigher DEF Stuck
<1>9. Above(u) \subseteq Above(t) /\ u \in Above(t) /\ u \notin Above(u)
  <2>1. \A v \in Locking : wants[v] \in Nat
    BY WantsShard DEF IInv
  <2>2. QED
    BY <1>8, <2>1
<1>10. <<Above(u), Above(t)>> \in StrictSubsetOrdering(Locking)
  <2>1. Above(u) \in SUBSET Locking /\ Above(t) \in SUBSET Locking /\ Above(u) # Above(t)
    BY <1>9
  <2>2. QED
    BY <1>9, <2>1 DEF StrictSubsetOrdering
<1>11. QED
  BY <1>6, <1>7, <1>10

\* However many iterators, handlers and threads there are, the threads alone
\* never block each other for ever.
THEOREM SendsAreNeeded == Spec => []OnlySendsDeadlock
BY LocksInv, SomebodySuspended, PTL

\* What makes the deadlock impossible: a thread for every task that uses the
\* table.  The program does not see to it: every connection gets a handler.
THEOREM ThreadsPreventIt ==
  ASSUME Workers >= Cardinality(Task)
  PROVE  Spec => []~Stuck
<1>1. IInv => ~Stuck
  <2> SUFFICES ASSUME IInv, Stuck PROVE FALSE
    OBVIOUS
  <2>1. PICK w \in Walker : Suspended(w)
    BY SomebodySuspended DEF OnlySendsDeadlock
  <2>2. w \in Task /\ w \notin Locking
    BY <2>1 DEF Suspended, Locking, Task
  <2>3. Locking \in SUBSET Task /\ Locking # Task
    BY <2>2 DEF Locking
  <2>4. /\ Cardinality(Locking) <= Cardinality(Task)
        /\ Cardinality(Locking) # Cardinality(Task)
        /\ IsFiniteSet(Locking)
    BY <2>3, FS_Subset, LockAssumption
  <2>5. Cardinality(Locking) \in Nat /\ Cardinality(Task) \in Nat
    BY <2>4, FS_CardinalityType, LockAssumption
  <2>6. Cardinality(Locking) < Workers
    BY <2>4, <2>5, LockAssumption
  <2>7. QED
    BY <2>6 DEF Stuck, WorkerFree
<1>2. QED
  BY <1>1, LocksInv, PTL
=============================================================================
