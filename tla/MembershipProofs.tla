-------------------------- MODULE MembershipProofs --------------------------
(***************************************************************************)
(* Proofs about Membership for every cluster, configuration, timing and    *)
(* delivery setting the assumptions admit.                                 *)
(***************************************************************************)
EXTENDS Membership, FiniteSetTheorems, TLAPS

-----------------------------------------------------------------------------
(* Entries.                                                                *)

\* The age of an entry is a natural number with room above the threshold.
LEMMA AgeBound == MaxAge \in Nat /\ MaxAge > DownAfter
  BY TimingAssumption DEF MaxAge

\* The operators on entries return entries.
LEMMA NoPeerType == NoPeer \in Entry
  BY AgeBound DEF NoPeer, Entry, NodeState, Address

\* A peer found through a heartbeat is an entry.
LEMMA RemoteType == Remote \in Entry
  BY AgeBound DEF Remote, Entry, NodeState, Address

\* So is a peer known from a join.
LEMMA RemoteWithGroupsType ==
  ASSUME NEW a \in Address, NEW g \in SUBSET Group
  PROVE  RemoteWithGroups(a, g) \in Entry
  BY AgeBound DEF RemoteWithGroups, Entry, NodeState

\* A heartbeat makes an entry of an entry.
LEMMA UpdateHeartbeatType ==
  ASSUME NEW e \in Entry, NEW g \in SUBSET Group
  PROVE  UpdateHeartbeat(e, g) \in Entry
  BY AgeBound DEF UpdateHeartbeat, Entry, NodeState

\* A check of the health changes the state of a known entry and nothing else.
LEMMA CheckHealthFacts ==
  ASSUME NEW e \in Entry
  PROVE  /\ CheckHealth(e) \in Entry
         /\ CheckHealth(e).addr = e.addr
         /\ CheckHealth(e).groups = e.groups
         /\ CheckHealth(e).age = e.age
         /\ (CheckHealth(e).state = "absent") <=> (e.state = "absent")
         /\ CheckHealth(e).state = "down" => e.age > DownAfter \/ e.state = "down"
         /\ CheckHealth(e).state = "suspect" => e.age > SuspectAfter \/ e.state = "suspect"
<1>1. CASE e.state = "absent"
  BY <1>1 DEF CheckHealth, Entry, NodeState
<1>2. CASE e.state # "absent" /\ e.age > DownAfter
  BY <1>2 DEF CheckHealth, Entry, NodeState
<1>3. CASE e.state # "absent" /\ ~(e.age > DownAfter) /\ e.age > SuspectAfter
  BY <1>3 DEF CheckHealth, Entry, NodeState
<1>4. CASE e.state # "absent" /\ ~(e.age > DownAfter) /\ ~(e.age > SuspectAfter)
  BY <1>4 DEF CheckHealth, Entry, NodeState
<1>5. QED
  BY <1>1, <1>2, <1>3, <1>4

\* The clock ages a known entry and changes nothing else of it.
LEMMA OlderFacts ==
  ASSUME NEW e \in Entry
  PROVE  /\ Older(e) \in Entry
         /\ Older(e).state = e.state
         /\ Older(e).addr = e.addr
         /\ Older(e).groups = e.groups
         /\ Older(e).age >= e.age
  BY AgeBound DEF Older, Entry

\* A node's configuration is well typed.
LEMMA ConfigType ==
  ASSUME NEW n \in Node
  PROVE  BindAddr[n] \in Address /\ AssignedGroups[n] \in SUBSET Group
  BY ConfigAssumption DEF Address

\* The empty table is a table.
LEMMA NoPeersType == NoPeers \in [Node -> Entry]
  BY NoPeerType DEF NoPeers

\* A snapshot of a well-typed table is a table.
LEMMA SnapshotType ==
  ASSUME peers \in [Node -> [Node -> Entry]], NEW s \in Node, NEW n \in Node
  PROVE  Snapshot(s, n) \in [Node -> Entry]
<1>1. ASSUME NEW p \in Node
      PROVE  RemoteWithGroups(peers[s][p].addr, peers[s][p].groups) \in Entry
  <2>1. peers[s][p] \in Entry
    OBVIOUS
  <2>2. peers[s][p].addr \in Address /\ peers[s][p].groups \in SUBSET Group
    BY <2>1 DEF Entry
  <2>3. QED
    BY <2>2, RemoteWithGroupsType
<1>2. RemoteWithGroups(BindAddr[s], AssignedGroups[s]) \in Entry
  BY ConfigType, RemoteWithGroupsType
<1>3. QED
  BY <1>1, <1>2, NoPeerType DEF Snapshot

\* Merging the items of a response into a table gives a table.
LEMMA MergeType ==
  ASSUME NEW old \in [Node -> Entry], NEW items \in [Node -> Entry]
  PROVE  Merge(old, items) \in [Node -> Entry]
  BY DEF Merge

\* The phases of a join.
LEMMA PhaseType == {"closed", "dialling", "requested", "added", "answered"} \subseteq JoinPhase
  BY DEF JoinPhase

\* Updating one cell of a two-dimensional table keeps its type.
LEMMA CellType ==
  ASSUME NEW S, NEW table \in [Node -> [Node -> S]],
         NEW n \in Node, NEW m \in Node, NEW v \in S
  PROVE  [table EXCEPT ![n][m] = v] \in [Node -> [Node -> S]]
  OBVIOUS

-----------------------------------------------------------------------------
(* Type correctness.                                                       *)

\* The initial state is well typed.
LEMMA InitType == Init => TypeOK
<1>1. 0 \in 0..MaxInFlight /\ 0 \in 0..HeartbeatEvery /\ 0 \in 0..CheckEvery
      /\ 0 \in 0..MaxCrashes
  BY TimingAssumption
<1>2. QED
  BY <1>1, NoPeersType DEF Init, TypeOK, JoinPhase

\* Every step keeps the types.
LEMMA NextType == TypeOK /\ [Next]_vars => TypeOK'
<1> SUFFICES ASSUME TypeOK, [Next]_vars PROVE TypeOK'
  OBVIOUS
<1> USE DEF TypeOK
<1>1. CASE Tick
  <2>1. peers' \in [Node -> [Node -> Entry]]
    BY <1>1, OlderFacts DEF Tick
  <2>2. Advance(sinceBeat, HeartbeatEvery) \in [Node -> 0..HeartbeatEvery]
    BY TimingAssumption DEF Advance
  <2>3. Advance(sinceCheck, CheckEvery) \in [Node -> 0..CheckEvery]
    BY TimingAssumption DEF Advance
  <2>4. QED
    BY <1>1, <2>1, <2>2, <2>3 DEF Tick
<1>2. ASSUME NEW n \in Node, Start(n) PROVE TypeOK'
  <2>1. HeartbeatEvery \in 0..HeartbeatEvery /\ CheckEvery \in 0..CheckEvery
    BY TimingAssumption
  <2>2. joining' \in [Node -> [Node -> JoinPhase]]
    BY <1>2 DEF Start, JoinPhase
  <2>3. QED
    BY <1>2, <2>1, <2>2 DEF Start
<1>3. ASSUME NEW n \in Node, Crash(n) PROVE TypeOK'
  <2>1. crashes' \in 0..MaxCrashes
    BY <1>3, TimingAssumption DEF Crash
  <2>2. peers' \in [Node -> [Node -> Entry]] /\ response' \in [Node -> [Node -> [Node -> Entry]]]
    BY <1>3, NoPeersType DEF Crash
  <2>3. joining' \in [Node -> [Node -> JoinPhase]]
    BY <1>3 DEF Crash, JoinPhase
  <2>4. /\ beats' \in [Node -> [Node -> 0..MaxInFlight]]
        /\ missed' \in [Node -> [Node -> 0..MaxInFlight]]
    BY <1>3, TimingAssumption DEF Crash
  <2>5. stray' \subseteq Node \X Node
    BY <1>3 DEF Crash
  <2>6. /\ sinceBeat' \in [Node -> 0..HeartbeatEvery]
        /\ sinceCheck' \in [Node -> 0..CheckEvery]
    BY <1>3, TimingAssumption DEF Crash
  <2>7. up' \in [Node -> BOOLEAN] /\ doomed' \in [Node -> SUBSET Node]
    BY <1>3 DEF Crash
  <2>8. QED
    BY <2>1, <2>2, <2>3, <2>4, <2>5, <2>6, <2>7
<1>4. ASSUME NEW n \in Node, SendHeartbeats(n) PROVE TypeOK'
  <2>1. PICK reached \in SUBSET {p \in Node : Known(n, p)} :
          /\ \A q \in Node : InFlight(n, reached, q) <= MaxInFlight
          /\ beats' = [beats EXCEPT ![n] = [q \in Node |-> InFlight(n, reached, q)]]
    BY <1>4 DEF SendHeartbeats
  <2>2. ASSUME NEW q \in Node PROVE InFlight(n, reached, q) \in 0..MaxInFlight
    <3> DEFINE hit == {p \in reached : Target(n, peers[n][p].addr) = q /\ up[q]}
    <3>1. Cardinality(hit) \in Nat
      BY NodeAssumption, FS_Subset, FS_CardinalityType
    <3>2. QED
      BY <2>1, <3>1, TimingAssumption DEF InFlight
  <2>3. beats' \in [Node -> [Node -> 0..MaxInFlight]]
    BY <2>1, <2>2
  <2>4. sinceBeat' \in [Node -> 0..HeartbeatEvery]
    BY <1>4, TimingAssumption DEF SendHeartbeats
  <2>5. QED
    BY <1>4, <2>3, <2>4 DEF SendHeartbeats
<1>5. ASSUME NEW n \in Node, HealthScan(n) PROVE TypeOK'
  <2>1. peers' \in [Node -> [Node -> Entry]]
    BY <1>5, CheckHealthFacts DEF HealthScan
  <2>2. sinceCheck' \in [Node -> 0..CheckEvery]
    BY <1>5, TimingAssumption DEF HealthScan
  <2>3. QED
    BY <1>5, <2>1, <2>2 DEF HealthScan
<1>6. ASSUME NEW n \in Node, NEW s \in Node, Dial(n, s) PROVE TypeOK'
  <2>1. joining' \in [Node -> [Node -> JoinPhase]]
    <3>1. CASE joining' = [joining EXCEPT ![n][s] = "requested"]
      BY <3>1, PhaseType
    <3>2. CASE joining' = [joining EXCEPT ![n][s] = "closed"]
      BY <3>2, PhaseType
    <3>3. QED
      BY <1>6, <3>1, <3>2 DEF Dial
  <2>2. QED
    BY <1>6, <2>1 DEF Dial
<1>7. ASSUME NEW s \in Node, NEW n \in Node, HandleJoinRequest(s, n) PROVE TypeOK'
  BY <1>7, ConfigType, RemoteWithGroupsType DEF HandleJoinRequest, AddJoiner, JoinPhase
<1>8. ASSUME NEW s \in Node, NEW n \in Node, SendJoinResponse(s, n) PROVE TypeOK'
  <2>1. Snapshot(s, n) \in [Node -> Entry]
    BY SnapshotType
  <2>2. joining' \in [Node -> [Node -> JoinPhase]]
    <3>1. CASE joining' = [joining EXCEPT ![n][s] = "answered"]
      BY <3>1, PhaseType
    <3>2. CASE joining' = [joining EXCEPT ![n][s] = "closed"]
      BY <3>2, PhaseType
    <3>3. QED
      BY <1>8, <3>1, <3>2 DEF SendJoinResponse
  <2>3. response' \in [Node -> [Node -> [Node -> Entry]]]
    <3>1. CASE response' = [response EXCEPT ![n][s] = Snapshot(s, n)]
      BY <3>1, <2>1
    <3>2. CASE UNCHANGED response
      BY <3>2
    <3>3. QED
      BY <1>8, <3>1, <3>2 DEF SendJoinResponse
  <2>4. QED
    BY <1>8, <2>2, <2>3 DEF SendJoinResponse
<1>9. ASSUME NEW n \in Node, NEW s \in Node, HandleJoinResponse(n, s) PROVE TypeOK'
  <2>1. Merge(peers[n], response[n][s]) \in [Node -> Entry]
    <3>1. peers[n] \in [Node -> Entry] /\ response[n][s] \in [Node -> Entry]
      OBVIOUS
    <3>2. QED
      BY <3>1, MergeType
  <2>2. peers' \in [Node -> [Node -> Entry]]
    BY <1>9, <2>1 DEF HandleJoinResponse
  <2>3. response' \in [Node -> [Node -> [Node -> Entry]]]
    BY <1>9, NoPeersType, CellType DEF HandleJoinResponse
  <2>4. joining' \in [Node -> [Node -> JoinPhase]]
    BY <1>9, PhaseType, CellType DEF HandleJoinResponse
  <2>5. QED
    BY <1>9, <2>2, <2>3, <2>4 DEF HandleJoinResponse
<1>10. ASSUME NEW s \in Node, NEW n \in Node, HandleStrayJoin(s, n) PROVE TypeOK'
  BY <1>10, ConfigType, RemoteWithGroupsType DEF HandleStrayJoin, AddJoiner
<1>11. ASSUME NEW n \in Node, NEW m \in Node, HandleHeartbeat(n, m) PROVE TypeOK'
  <2>1. beats' \in [Node -> [Node -> 0..MaxInFlight]]
    BY <1>11, TimingAssumption DEF HandleHeartbeat
  <2>2. peers' \in [Node -> [Node -> Entry]]
    <3>1. peers[n][m] \in Entry
      OBVIOUS
    <3>2. UpdateHeartbeat(peers[n][m], AssignedGroups[m]) \in Entry
      BY <3>1, ConfigType, UpdateHeartbeatType
    <3>3. QED
      <4>1. CASE UNCHANGED peers
        BY <4>1
      <4>2. CASE peers' = [peers EXCEPT ![n][m] = UpdateHeartbeat(peers[n][m], AssignedGroups[m])]
        BY <4>2, <3>2
      <4>3. QED
        BY <1>11, <4>1, <4>2 DEF HandleHeartbeat
  <2>3. missed' \in [Node -> [Node -> 0..MaxInFlight]]
    <3>1. CASE UNCHANGED missed
      BY <3>1
    <3>2. CASE /\ missed[n][m] < MaxInFlight
               /\ missed' = [missed EXCEPT ![n][m] = missed[n][m] + 1]
      BY <3>2, TimingAssumption
    <3>3. QED
      BY <1>11, <3>1, <3>2 DEF HandleHeartbeat
  <2>4. QED
    BY <1>11, <2>1, <2>2, <2>3 DEF HandleHeartbeat
<1>12. ASSUME NEW n \in Node, NEW m \in Node, InsertDiscovered(n, m) PROVE TypeOK'
  <2>1. missed' \in [Node -> [Node -> 0..MaxInFlight]]
    BY <1>12, TimingAssumption DEF InsertDiscovered
  <2>2. peers' \in [Node -> [Node -> Entry]]
    <3>1. CASE UNCHANGED peers
      BY <3>1
    <3>2. CASE peers' = [peers EXCEPT ![n][m] = Remote]
      BY <3>2, RemoteType
    <3>3. QED
      BY <1>12, <3>1, <3>2 DEF InsertDiscovered
  <2>3. QED
    BY <1>12, <2>1, <2>2 DEF InsertDiscovered
<1>13. ASSUME NEW n \in Node, NEW p \in Node, HealthEvict(n, p) PROVE TypeOK'
  BY <1>13, NoPeerType DEF HealthEvict
<1>14. CASE UNCHANGED vars
  BY <1>14 DEF vars
<1>15. QED
  BY <1>1, <1>2, <1>3, <1>4, <1>5, <1>6, <1>7, <1>8, <1>9, <1>10, <1>11,
     <1>12, <1>13, <1>14 DEF Next

\* Every reachable state is well typed, whatever the cluster and its timing.
THEOREM TypeCorrect == Spec => []TypeOK
<1>1. QED
  BY InitType, NextType, PTL DEF Spec

-----------------------------------------------------------------------------
(* Where an entry can come from.                                           *)

\* What one step may do to the entry of n for p: keep it or age it, and not
\* take it off the checker's list; check it; replace it by one of the fixed
\* forms; or replace it by an item of a response.
EntryStep(n, p) ==
  \/ /\ \/ peers'[n][p] = peers[n][p]
        \/ Tick /\ peers'[n][p] = Older(peers[n][p])
     /\ p \in doomed[n] => p \in doomed'[n]
  \/ /\ HealthScan(n)
     /\ peers'[n][p] = CheckHealth(peers[n][p])
     /\ peers'[n][p].state = "down" => p \in doomed'[n]
  \/ peers'[n][p] \in {NoPeer, Remote}
  \/ /\ HandleJoinRequest(n, p) \/ HandleStrayJoin(n, p)
     /\ peers'[n][p] = RemoteWithGroups(BindAddr[p], AssignedGroups[p])
  \/ /\ Known(n, p)
     /\ peers'[n][p] = UpdateHeartbeat(peers[n][p], AssignedGroups[p])
  \/ \E s \in Node : HandleJoinResponse(n, s) /\ peers'[n][p] = response[n][s][p]

\* Every step treats every entry in one of these ways.
LEMMA EntryOrigins ==
  ASSUME TypeOK, [Next]_vars, NEW n \in Node, NEW p \in Node
  PROVE  EntryStep(n, p)
<1> USE DEF TypeOK
<1>1. CASE Tick
  BY <1>1 DEF Tick, EntryStep
<1>2. ASSUME NEW m \in Node, Start(m) \/ SendHeartbeats(m) PROVE EntryStep(n, p)
  BY <1>2 DEF Start, SendHeartbeats, EntryStep
<1>3. ASSUME NEW m \in Node, Crash(m) PROVE EntryStep(n, p)
  <2>1. CASE m = n
    BY <1>3, <2>1 DEF Crash, EntryStep, NoPeers
  <2>2. CASE m # n
    BY <1>3, <2>2 DEF Crash, EntryStep
  <2>3. QED
    BY <2>1, <2>2
<1>4. ASSUME NEW m \in Node, HealthScan(m) PROVE EntryStep(n, p)
  <2>1. CASE m = n
    BY <1>4, <2>1 DEF HealthScan, EntryStep
  <2>2. CASE m # n
    BY <1>4, <2>2 DEF HealthScan, EntryStep
  <2>3. QED
    BY <2>1, <2>2
<1>5. ASSUME NEW m \in Node, NEW q \in Node, Dial(m, q) \/ SendJoinResponse(m, q)
      PROVE  EntryStep(n, p)
  BY <1>5 DEF Dial, SendJoinResponse, EntryStep
<1>6. ASSUME NEW s \in Node, NEW m \in Node, HandleJoinRequest(s, m) \/ HandleStrayJoin(s, m)
      PROVE  EntryStep(n, p)
  <2>1. AddJoiner(s, m) /\ doomed' = doomed
    BY <1>6 DEF HandleJoinRequest, HandleStrayJoin
  <2>2. CASE s = n /\ m = p
    BY <1>6, <2>1, <2>2 DEF AddJoiner, EntryStep
  <2>3. CASE ~(s = n /\ m = p)
    BY <2>1, <2>3 DEF AddJoiner, EntryStep
  <2>4. QED
    BY <2>2, <2>3
<1>7. ASSUME NEW m \in Node, NEW s \in Node, HandleJoinResponse(m, s) PROVE EntryStep(n, p)
  <2>1. CASE m = n
    <3>1. peers'[n][p] = IF response[n][s][p] = NoPeer THEN peers[n][p] ELSE response[n][s][p]
      BY <1>7, <2>1 DEF HandleJoinResponse, Merge
    <3>2. QED
      BY <1>7, <3>1 DEF HandleJoinResponse, EntryStep
  <2>2. CASE m # n
    BY <1>7, <2>2 DEF HandleJoinResponse, EntryStep
  <2>3. QED
    BY <2>1, <2>2
<1>8. ASSUME NEW m \in Node, NEW q \in Node, HandleHeartbeat(m, q) PROVE EntryStep(n, p)
  <2>1. doomed' = doomed
    BY <1>8 DEF HandleHeartbeat
  <2>2. CASE UNCHANGED peers
    BY <2>1, <2>2 DEF EntryStep
  <2>3. CASE /\ Known(m, q)
             /\ peers' = [peers EXCEPT ![m][q] = UpdateHeartbeat(peers[m][q], AssignedGroups[q])]
    <3>1. CASE m = n /\ q = p
      BY <2>3, <3>1 DEF EntryStep
    <3>2. CASE ~(m = n /\ q = p)
      BY <2>1, <2>3, <3>2 DEF EntryStep
    <3>3. QED
      BY <3>1, <3>2
  <2>4. QED
    BY <1>8, <2>2, <2>3 DEF HandleHeartbeat
<1>9. ASSUME NEW m \in Node, NEW q \in Node, InsertDiscovered(m, q) PROVE EntryStep(n, p)
  <2>1. CASE m = n /\ q = p
    BY <1>9, <2>1 DEF InsertDiscovered, EntryStep
  <2>2. CASE ~(m = n /\ q = p)
    BY <1>9, <2>2 DEF InsertDiscovered, EntryStep
  <2>3. QED
    BY <2>1, <2>2
<1>10. ASSUME NEW m \in Node, NEW q \in Node, HealthEvict(m, q) PROVE EntryStep(n, p)
  <2>1. CASE m = n /\ q = p
    BY <1>10, <2>1 DEF HealthEvict, EntryStep
  <2>2. CASE ~(m = n /\ q = p)
    BY <1>10, <2>2 DEF HealthEvict, EntryStep
  <2>3. QED
    BY <2>1, <2>2
<1>11. CASE UNCHANGED vars
  BY <1>11 DEF vars, EntryStep
<1>12. QED
  BY <1>1, <1>2, <1>3, <1>4, <1>5, <1>6, <1>7, <1>8, <1>9, <1>10, <1>11 DEF Next

\* A response in flight is kept, dropped, or a snapshot just taken by an
\* owner that was handling the request.
LEMMA ResponseOrigins ==
  ASSUME TypeOK, [Next]_vars, NEW n \in Node, NEW s \in Node
  PROVE  \/ response'[n][s] \in {response[n][s], NoPeers}
         \/ response'[n][s] = Snapshot(s, n) /\ joining[n][s] = "added"
<1> DEFINE Goal == \/ response'[n][s] \in {response[n][s], NoPeers}
                   \/ response'[n][s] = Snapshot(s, n) /\ joining[n][s] = "added"
<1> USE DEF TypeOK
<1>1. CASE UNCHANGED response
  BY <1>1
<1>2. ASSUME NEW m \in Node, Crash(m) PROVE Goal
  <2>1. response' = [response EXCEPT ![m] = [q \in Node |-> NoPeers]]
    BY <1>2 DEF Crash
  <2>2. QED
    BY <2>1
<1>3. ASSUME NEW q \in Node, NEW m \in Node, SendJoinResponse(q, m) PROVE Goal
  <2>1. CASE response' = [response EXCEPT ![m][q] = Snapshot(q, m)]
    <3>1. CASE m = n /\ q = s
      BY <1>3, <2>1, <3>1 DEF SendJoinResponse
    <3>2. CASE ~(m = n /\ q = s)
      BY <2>1, <3>2
    <3>3. QED
      BY <3>1, <3>2
  <2>2. QED
    BY <1>1, <1>3, <2>1 DEF SendJoinResponse
<1>4. ASSUME NEW m \in Node, NEW q \in Node, HandleJoinResponse(m, q) PROVE Goal
  <2>1. response' = [response EXCEPT ![m][q] = NoPeers]
    BY <1>4 DEF HandleJoinResponse
  <2>2. QED
    BY <2>1
<1>5. QED
  BY <1>1, <1>2, <1>3, <1>4
  DEF Next, vars, Tick, Start, SendHeartbeats, HealthScan, Dial, HandleJoinRequest,
      HandleStrayJoin, HandleHeartbeat, InsertDiscovered, HealthEvict

-----------------------------------------------------------------------------
(* Entries describe their own node.                                        *)

\* A snapshot of a truthful table is truthful.
LEMMA SnapshotDescribes ==
  ASSUME TypeOK, EntriesDescribeTheirNode, NEW s \in Node, NEW n \in Node, NEW p \in Node
  PROVE  Describes(Snapshot(s, n)[p], p)
<1>1. Describes(peers[s][p], p)
  BY DEF EntriesDescribeTheirNode
<1>2. QED
  BY <1>1 DEF Describes, Snapshot, RemoteWithGroups, NoPeer, Known

\* No entry, nothing to describe.
LEMMA DescribesInit == Init => EntriesDescribeTheirNode
  BY DEF Init, EntriesDescribeTheirNode, Describes, NoPeers, NoPeer

\* Every step keeps every entry describing its node.
LEMMA DescribesNext ==
  TypeOK /\ EntriesDescribeTheirNode /\ [Next]_vars => EntriesDescribeTheirNode'
<1> SUFFICES ASSUME TypeOK, EntriesDescribeTheirNode, [Next]_vars,
                    NEW n \in Node, NEW p \in Node
             PROVE  /\ Describes(peers'[n][p], p)
                    /\ \A s \in Node : Describes(response'[n][s][p], p)
  BY DEF EntriesDescribeTheirNode, Describes
<1>1. /\ peers[n][p] \in Entry
      /\ Describes(peers[n][p], p)
      /\ \A s \in Node : Describes(response[n][s][p], p)
  BY DEF TypeOK, EntriesDescribeTheirNode
<1>2. Describes(peers'[n][p], p)
  <2>1. CASE peers'[n][p] \in {peers[n][p], Older(peers[n][p])}
    BY <1>1, <2>1, OlderFacts DEF Describes
  <2>2. CASE peers'[n][p] = CheckHealth(peers[n][p])
    BY <1>1, <2>2, CheckHealthFacts DEF Describes
  <2>3. CASE peers'[n][p] \in {NoPeer, Remote,
                               RemoteWithGroups(BindAddr[p], AssignedGroups[p])}
    BY <2>3 DEF Describes, NoPeer, Remote, RemoteWithGroups
  <2>4. CASE Known(n, p) /\ peers'[n][p] = UpdateHeartbeat(peers[n][p], AssignedGroups[p])
    BY <1>1, <2>4 DEF Describes, UpdateHeartbeat, Known
  <2>5. CASE \E s \in Node : peers'[n][p] = response[n][s][p]
    BY <1>1, <2>5
  <2>6. QED
    BY <2>1, <2>2, <2>3, <2>4, <2>5, EntryOrigins DEF EntryStep
<1>3. ASSUME NEW s \in Node PROVE Describes(response'[n][s][p], p)
  <2>1. Describes(NoPeers[p], p)
    BY DEF Describes, NoPeers, NoPeer
  <2>2. Describes(Snapshot(s, n)[p], p)
    BY SnapshotDescribes
  <2>3. QED
    BY <1>1, <2>1, <2>2, ResponseOrigins
<1>4. QED
  BY <1>2, <1>3

\* No path by which an entry travels mixes two nodes up: its address is the
\* one its node announced or a dead client port, its groups are its node's.
THEOREM EntriesDescribe == Spec => []EntriesDescribeTheirNode
  BY InitType, NextType, DescribesInit, DescribesNext, PTL DEF Spec

-----------------------------------------------------------------------------
(* Verdicts of the health checker.                                         *)

\* The items of a response stay fresh and healthy.
LEMMA FreshNext ==
  TypeOK /\ ResponsesAreFresh /\ [Next]_vars => ResponsesAreFresh'
<1> SUFFICES ASSUME TypeOK, ResponsesAreFresh, [Next]_vars,
                    NEW n \in Node, NEW s \in Node, NEW p \in Node
             PROVE  response'[n][s][p] = NoPeer \/ response'[n][s][p].state = "healthy"
  BY DEF ResponsesAreFresh
<1>1. response[n][s][p] = NoPeer \/ response[n][s][p].state = "healthy"
  BY DEF ResponsesAreFresh
<1>2. NoPeers[p] = NoPeer
  BY DEF NoPeers
<1>3. Snapshot(s, n)[p] = NoPeer \/ Snapshot(s, n)[p].state = "healthy"
  BY DEF Snapshot, RemoteWithGroups
<1>4. QED
  BY <1>1, <1>2, <1>3, ResponseOrigins

\* Every step keeps the verdicts earned.
LEMMA VerdictsNext ==
  TypeOK /\ ResponsesAreFresh /\ VerdictsAreEarned /\ [Next]_vars => VerdictsAreEarned'
<1> SUFFICES ASSUME TypeOK, ResponsesAreFresh, VerdictsAreEarned, [Next]_vars,
                    NEW n \in Node, NEW p \in Node
             PROVE  /\ peers'[n][p].state = "suspect" => peers'[n][p].age > SuspectAfter
                    /\ peers'[n][p].state = "down" => /\ peers'[n][p].age > DownAfter
                                                      /\ p \in doomed'[n]
  BY DEF VerdictsAreEarned
<1>1. /\ peers[n][p] \in Entry
      /\ peers[n][p].state = "suspect" => peers[n][p].age > SuspectAfter
      /\ peers[n][p].state = "down" => peers[n][p].age > DownAfter /\ p \in doomed[n]
  BY DEF TypeOK, VerdictsAreEarned
<1>2. peers[n][p].age \in Nat /\ SuspectAfter \in Nat /\ DownAfter \in Nat
  BY <1>1, AgeBound, TimingAssumption DEF Entry
<1>3. CASE /\ peers'[n][p] \in {peers[n][p], Older(peers[n][p])}
           /\ p \in doomed[n] => p \in doomed'[n]
  <2>1. /\ peers'[n][p].state = peers[n][p].state
        /\ peers'[n][p].age >= peers[n][p].age
        /\ peers'[n][p].age \in Nat
    BY <1>1, <1>2, <1>3, OlderFacts, AgeBound DEF Entry
  <2>2. QED
    BY <1>1, <1>2, <1>3, <2>1
<1>4. CASE /\ peers'[n][p] = CheckHealth(peers[n][p])
           /\ peers'[n][p].state = "down" => p \in doomed'[n]
  BY <1>1, <1>4, CheckHealthFacts
<1>5. CASE peers'[n][p] \in {NoPeer, Remote,
                             RemoteWithGroups(BindAddr[p], AssignedGroups[p]),
                             UpdateHeartbeat(peers[n][p], AssignedGroups[p])}
  BY <1>5 DEF NoPeer, Remote, RemoteWithGroups, UpdateHeartbeat
<1>6. CASE \E s \in Node : peers'[n][p] = response[n][s][p]
  BY <1>6 DEF ResponsesAreFresh, NoPeer
<1>7. QED
  BY <1>3, <1>4, <1>5, <1>6, EntryOrigins DEF EntryStep

\* A peer reads suspect or down only while its entry is older than the
\* threshold, and every entry that reads down is on the checker's list.
THEOREM VerdictsEarned == Spec => []VerdictsAreEarned
<1>1. Init => ResponsesAreFresh /\ VerdictsAreEarned
  BY DEF Init, ResponsesAreFresh, VerdictsAreEarned, NoPeers, NoPeer
<1>2. QED
  BY <1>1, InitType, NextType, FreshNext, VerdictsNext, PTL DEF Spec

-----------------------------------------------------------------------------
(* Nothing of a node outlives its process.                                 *)

\* No node is its own static peer, so none joins through itself.
NoSelfJoin == \A n \in Node : joining[n][n] = "closed"

\* A node is never made to join through itself.
LEMMA NextNoSelfJoin == TypeOK /\ NoSelfJoin /\ [Next]_vars => NoSelfJoin'
<1> SUFFICES ASSUME TypeOK, NoSelfJoin, [Next]_vars, NEW n \in Node
             PROVE  joining'[n][n] = "closed"
  BY DEF NoSelfJoin
<1>1. joining[n][n] = "closed"
  BY DEF NoSelfJoin
<1>2. ASSUME NEW m \in Node, Start(m) \/ Crash(m) PROVE joining'[n][n] = "closed"
  <2>1. CASE Start(m)
    BY <1>1, <2>1, ConfigAssumption DEF Start, TypeOK
  <2>2. CASE Crash(m)
    BY <1>1, <2>2 DEF Crash, TypeOK
  <2>3. QED
    BY <1>2, <2>1, <2>2
<1>3. ASSUME NEW m \in Node, NEW q \in Node,
             \/ Dial(m, q) \/ HandleJoinRequest(q, m) \/ SendJoinResponse(q, m)
             \/ HandleJoinResponse(m, q)
      PROVE  joining'[n][n] = "closed"
  <2>1. m # n \/ q # n
    BY <1>1, <1>3 DEF Dial, HandleJoinRequest, SendJoinResponse, HandleJoinResponse
  <2>2. \E phase \in JoinPhase : joining' = [joining EXCEPT ![m][q] = phase]
    BY <1>3, PhaseType
    DEF Dial, HandleJoinRequest, SendJoinResponse, HandleJoinResponse
  <2>3. QED
    BY <1>1, <2>1, <2>2 DEF TypeOK
<1>4. QED
  BY <1>1, <1>2, <1>3
  DEF Next, vars, Tick, SendHeartbeats, HealthScan, HandleStrayJoin, HandleHeartbeat,
      InsertDiscovered, HealthEvict


\* To begin with no node runs and nothing is under way.
LEMMA InitIdle == Init => StoppedIsIdle
  BY DEF Init, StoppedIsIdle

\* No join is under way to begin with.
LEMMA InitNoSelfJoin == Init => NoSelfJoin
  BY DEF Init, NoSelfJoin

\* A node that does not run after a step did not run before it either and was
\* idle, or the step is its crash.
LEMMA StoppedBefore ==
  ASSUME TypeOK, [Next]_vars, NEW n \in Node, ~up'[n]
  PROVE  ~up[n] \/ Crash(n)
<1>1. CASE UNCHANGED up
  BY <1>1
<1>2. ASSUME NEW m \in Node, Start(m) PROVE ~up[n]
  BY <1>2 DEF Start, TypeOK
<1>3. ASSUME NEW m \in Node, Crash(m) PROVE ~up[n] \/ Crash(n)
  BY <1>3 DEF Crash, TypeOK
<1>4. ASSUME NEW m \in Node, SendHeartbeats(m) \/ HealthScan(m) PROVE UNCHANGED up
  BY <1>4 DEF SendHeartbeats, HealthScan
<1>5. ASSUME NEW m \in Node, NEW q \in Node,
             \/ Dial(m, q) \/ HandleJoinRequest(m, q) \/ SendJoinResponse(m, q)
             \/ HandleJoinResponse(m, q) \/ HandleStrayJoin(m, q)
             \/ HandleHeartbeat(m, q) \/ InsertDiscovered(m, q) \/ HealthEvict(m, q)
      PROVE  UNCHANGED up
  BY <1>5 DEF Dial, HandleJoinRequest, SendJoinResponse, HandleJoinResponse,
              HandleStrayJoin, HandleHeartbeat, InsertDiscovered, HealthEvict
<1>6. CASE Tick \/ UNCHANGED vars
  BY <1>6 DEF Tick, vars
<1>7. QED
  BY <1>1, <1>2, <1>3, <1>4, <1>5, <1>6 DEF Next

\* What idle means for one node that does not run.
Idle(n) ==
  /\ peers[n] = NoPeers
  /\ doomed[n] = {}
  /\ \A m \in Node : /\ joining[n][m] = "closed"
                     /\ joining[m][n] \notin {"requested", "added"}
                     /\ <<m, n>> \notin stray
                     /\ beats[m][n] = 0
                     /\ missed[n][m] = 0

\* A crash leaves its node idle.
LEMMA CrashIdles ==
  ASSUME TypeOK, NoSelfJoin, NEW n \in Node, Crash(n)
  PROVE  Idle(n)'
<1>1. peers'[n] = NoPeers /\ doomed'[n] = {}
  BY DEF Crash, TypeOK
<1>2. ASSUME NEW m \in Node
      PROVE  /\ joining'[n][m] = "closed"
             /\ joining'[m][n] \notin {"requested", "added"}
             /\ beats'[m][n] = 0
             /\ missed'[n][m] = 0
  BY DEF Crash, TypeOK
<1>3. ASSUME NEW m \in Node PROVE <<m, n>> \notin stray'
  <2>1. joining[n][n] = "closed"
    BY DEF NoSelfJoin
  <2>2. QED
    BY <2>1 DEF Crash
<1>4. QED
  BY <1>1, <1>2, <1>3 DEF Idle

\* Every step leaves an idle node that is not started idle.
LEMMA IdleKept ==
  ASSUME TypeOK, StoppedIsIdle, [Next]_vars, NEW n \in Node, ~up[n], ~up'[n]
  PROVE  Idle(n)'
<1>0. TypeOK
  OBVIOUS
<1>1. /\ Idle(n)
      /\ \A q \in Node : joining[n][q] = "closed" /\ missed[n][q] = 0
      /\ \A q \in Node : joining[q][n] \notin {"requested", "added"} /\ beats[q][n] = 0
  BY DEF StoppedIsIdle, TypeOK, Idle
<1>2. CASE Tick
  <2>1. peers'[n] = NoPeers
    <3>1. Older(NoPeer) = NoPeer
      BY DEF Older, NoPeer
    <3>2. \A p \in Node : peers[n][p] = NoPeer
      BY <1>1 DEF Idle, NoPeers
    <3>3. QED
      BY <1>2, <3>1, <3>2 DEF Tick, NoPeers
  <2>2. QED
    BY <1>0, <1>1, <1>2, <2>1 DEF Tick, TypeOK, Idle
<1>3. ASSUME NEW m \in Node, Start(m) PROVE Idle(n)'
  <2>1. m # n
    BY <1>0, <1>3 DEF Start, TypeOK
  <2>2. joining'[n] = joining[n]
    BY <1>0, <1>3, <2>1 DEF Start, TypeOK
  <2>3. \A q \in Node : joining'[q][n] \notin {"requested", "added"}
    BY <1>0, <1>1, <1>3 DEF Start, TypeOK
  <2>4. QED
    BY <1>0, <1>1, <1>3, <2>2, <2>3 DEF Start, TypeOK, Idle
<1>4. ASSUME NEW m \in Node, Crash(m) PROVE Idle(n)'
  <2>1. m # n
    BY <1>4 DEF Crash
  <2>2. peers'[n] = NoPeers /\ doomed'[n] = {}
    BY <1>0, <1>1, <1>4, <2>1 DEF Crash, TypeOK, Idle
  <2>3. ASSUME NEW q \in Node
        PROVE  /\ joining'[n][q] = "closed"
               /\ joining'[q][n] \notin {"requested", "added"}
               /\ beats'[q][n] = 0
               /\ missed'[n][q] = 0
    BY <1>0, <1>1, <1>4, <2>1 DEF Crash, TypeOK, Idle
  <2>4. ASSUME NEW q \in Node PROVE <<q, n>> \notin stray'
    BY <1>0, <1>1, <1>4, <2>1 DEF Crash, TypeOK, Idle
  <2>5. QED
    BY <2>2, <2>3, <2>4 DEF TypeOK, Idle
<1>5. ASSUME NEW m \in Node, SendHeartbeats(m) PROVE Idle(n)'
  <2>1. PICK reached \in SUBSET {p \in Node : Known(m, p)} :
          beats' = [beats EXCEPT ![m] = [q \in Node |-> InFlight(m, reached, q)]]
    BY <1>5 DEF SendHeartbeats
  <2>2. InFlight(m, reached, n) = 0
    <3> DEFINE hit == {p \in reached : Target(m, peers[m][p].addr) = n /\ up[n]}
    <3>1. \A p \in reached : ~(Target(m, peers[m][p].addr) = n /\ up[n])
      OBVIOUS
    <3>2. hit = {}
      BY <3>1, Zenon
    <3>3. InFlight(m, reached, n) = beats[m][n] + 0
      BY <3>2, FS_EmptySet DEF InFlight
    <3>4. QED
      BY <1>1, <3>3
  <2>3. \A q \in Node : beats'[q][n] = 0
    BY <1>0, <1>1, <2>1, <2>2 DEF TypeOK, Idle
  <2>4. QED
    BY <1>0, <1>1, <1>5, <2>3 DEF SendHeartbeats, TypeOK, Idle
<1>6. ASSUME NEW m \in Node, HealthScan(m) PROVE Idle(n)'
  BY <1>0, <1>1, <1>6 DEF HealthScan, TypeOK, Idle
<1>7. ASSUME NEW m \in Node, NEW s \in Node, Dial(m, s) PROVE Idle(n)'
  <2>1. m # n
    BY <1>0, <1>1, <1>7 DEF Dial, TypeOK, Idle
  <2>2. \E phase \in {"requested", "closed"} :
          /\ joining' = [joining EXCEPT ![m][s] = phase]
          /\ phase = "requested" => s # n
    BY <1>7 DEF Dial
  <2>3. \A q \in Node : joining'[n][q] = "closed" /\ joining'[q][n] \notin {"requested", "added"}
    BY <1>0, <1>1, <2>1, <2>2 DEF TypeOK, Idle
  <2>4. QED
    BY <1>0, <1>1, <1>7, <2>3 DEF Dial, TypeOK, Idle
<1>8. ASSUME NEW s \in Node, NEW m \in Node, HandleJoinRequest(s, m) PROVE Idle(n)'
  <2>1. m # n /\ s # n
    BY <1>0, <1>1, <1>8 DEF HandleJoinRequest, TypeOK, Idle
  <2>2. QED
    BY <1>0, <1>1, <1>8, <2>1 DEF HandleJoinRequest, AddJoiner, TypeOK, Idle
<1>9. ASSUME NEW s \in Node, NEW m \in Node, SendJoinResponse(s, m) PROVE Idle(n)'
  <2>1. m # n /\ s # n
    BY <1>0, <1>1, <1>9 DEF SendJoinResponse, TypeOK, Idle
  <2>2. \E phase \in {"answered", "closed"} : joining' = [joining EXCEPT ![m][s] = phase]
    BY <1>9 DEF SendJoinResponse
  <2>3. \A q \in Node : joining'[n][q] = "closed" /\ joining'[q][n] \notin {"requested", "added"}
    BY <1>0, <1>1, <2>1, <2>2 DEF TypeOK, Idle
  <2>4. QED
    BY <1>0, <1>1, <1>9, <2>3 DEF SendJoinResponse, TypeOK, Idle
<1>10. ASSUME NEW m \in Node, NEW s \in Node, HandleJoinResponse(m, s) PROVE Idle(n)'
  <2>1. m # n
    BY <1>0, <1>1, <1>10 DEF HandleJoinResponse, TypeOK, Idle
  <2>2. QED
    BY <1>0, <1>1, <1>10, <2>1 DEF HandleJoinResponse, TypeOK, Idle
<1>11. ASSUME NEW s \in Node, NEW m \in Node, HandleStrayJoin(s, m) PROVE Idle(n)'
  <2>1. s # n
    BY <1>0, <1>1, <1>11 DEF HandleStrayJoin, TypeOK, Idle
  <2>2. QED
    BY <1>0, <1>1, <1>11, <2>1 DEF HandleStrayJoin, AddJoiner, TypeOK, Idle
<1>12. ASSUME NEW m \in Node, NEW q \in Node, HandleHeartbeat(m, q) PROVE Idle(n)'
  <2>1. m # n
    BY <1>0, <1>1, <1>12 DEF HandleHeartbeat, TypeOK, Idle
  <2>2. peers'[n] = peers[n]
    BY <1>0, <1>12, <2>1 DEF HandleHeartbeat, TypeOK
  <2>3. \A r \in Node : beats'[r][n] = 0
    BY <1>0, <1>1, <1>12, <2>1 DEF HandleHeartbeat, TypeOK, Idle
  <2>4. missed'[n] = missed[n]
    <3>1. CASE UNCHANGED missed
      BY <3>1
    <3>2. CASE missed' = [missed EXCEPT ![m][q] = missed[m][q] + 1]
      BY <1>0, <2>1, <3>2 DEF TypeOK
    <3>3. QED
      BY <1>12, <3>1, <3>2 DEF HandleHeartbeat
  <2>5. QED
    BY <1>0, <1>1, <1>12, <2>2, <2>3, <2>4 DEF HandleHeartbeat, TypeOK, Idle
<1>13. ASSUME NEW m \in Node, NEW q \in Node, InsertDiscovered(m, q) PROVE Idle(n)'
  <2>1. m # n
    BY <1>0, <1>1, <1>13 DEF InsertDiscovered, TypeOK, Idle
  <2>2. QED
    BY <1>0, <1>1, <1>13, <2>1 DEF InsertDiscovered, TypeOK, Idle
<1>14. ASSUME NEW m \in Node, NEW p \in Node, HealthEvict(m, p) PROVE Idle(n)'
  <2>1. m # n
    BY <1>0, <1>1, <1>14 DEF HealthEvict, TypeOK, Idle
  <2>2. QED
    BY <1>0, <1>1, <1>14, <2>1 DEF HealthEvict, TypeOK, Idle
<1>15. CASE UNCHANGED vars
  BY <1>0, <1>1, <1>15 DEF vars, TypeOK, Idle
<1>16. QED
  BY <1>2, <1>3, <1>4, <1>5, <1>6, <1>7, <1>8, <1>9, <1>10, <1>11, <1>12, <1>13,
     <1>14, <1>15 DEF Next

\* Every step leaves the nodes that do not run idle.
LEMMA NextIdle ==
  TypeOK /\ NoSelfJoin /\ StoppedIsIdle /\ [Next]_vars => StoppedIsIdle'
<1> SUFFICES ASSUME TypeOK, NoSelfJoin, StoppedIsIdle, [Next]_vars, NEW n \in Node, ~up'[n]
             PROVE  Idle(n)'
  BY DEF StoppedIsIdle, Idle
<1>1. CASE ~up[n]
  BY <1>1, IdleKept
<1>2. CASE Crash(n)
  BY <1>2, CrashIdles
<1>3. QED
  BY <1>1, <1>2, StoppedBefore

-----------------------------------------------------------------------------
(* No node is its own peer, provided the bind addresses name an interface. *)

Direct == \A n \in Node : BindAddr[n] = n

SelfInv == NoSelfPeer /\ NoSelfTraffic

\* In particular none joins through itself.
LEMMA SelfInvJoins == SelfInv => NoSelfJoin
  BY DEF SelfInv, NoSelfTraffic, NoSelfJoin

\* No node has an entry or a message of its own to begin with.
LEMMA SelfInit == Init => SelfInv
  BY DEF Init, SelfInv, NoSelfPeer, NoSelfTraffic, Known, NoPeers, NoPeer

\* With direct addresses a round of heartbeats sends nothing to its sender.
LEMMA NoBeatToSelf ==
  ASSUME Direct, TypeOK, EntriesDescribeTheirNode, SelfInv,
         NEW n \in Node, SendHeartbeats(n)
  PROVE  beats'[n][n] = 0
<1>1. PICK reached \in SUBSET {p \in Node : Known(n, p)} :
        beats' = [beats EXCEPT ![n] = [q \in Node |-> InFlight(n, reached, q)]]
  BY DEF SendHeartbeats
<1> DEFINE hit == {p \in reached : Target(n, peers[n][p].addr) = n /\ up[n]}
<1>2. ASSUME NEW p \in reached PROVE Target(n, peers[n][p].addr) # n
  <2>1. p \in Node /\ Known(n, p) /\ p # n
    BY DEF SelfInv, NoSelfPeer
  <2>2. peers[n][p].addr \in {p, Ephemeral}
    BY <2>1 DEF Direct, EntriesDescribeTheirNode, Describes, Known
  <2>3. QED
    BY <2>1, <2>2, AddressAssumption DEF Target
<1>3. hit = {}
  BY <1>2
<1>4. InFlight(n, reached, n) = beats[n][n] + 0
  BY <1>3, FS_EmptySet DEF InFlight
<1>5. beats[n][n] = 0
  BY DEF SelfInv, NoSelfTraffic
<1>6. QED
  BY <1>1, <1>4, <1>5 DEF TypeOK

\* No step sends a node a message of its own.
LEMMA SelfTrafficNext ==
  ASSUME Direct, TypeOK, EntriesDescribeTheirNode, SelfInv, [Next]_vars
  PROVE  NoSelfTraffic'
<1> SUFFICES ASSUME NEW n \in Node
             PROVE  /\ joining'[n][n] = "closed"
                    /\ <<n, n>> \notin stray'
                    /\ beats'[n][n] = 0
                    /\ missed'[n][n] = 0
                    /\ \A s \in Node : response'[n][s][n] = NoPeer
  BY DEF NoSelfTraffic
<1>1. /\ joining[n][n] = "closed"
      /\ <<n, n>> \notin stray
      /\ beats[n][n] = 0
      /\ missed[n][n] = 0
      /\ \A s \in Node : response[n][s][n] = NoPeer
  BY DEF SelfInv, NoSelfTraffic
<1>2. \A s \in Node : response'[n][s][n] = NoPeer
  <2>1. ASSUME NEW s \in Node PROVE response'[n][s][n] = NoPeer
    <3>1. CASE response'[n][s] \in {response[n][s], NoPeers}
      BY <1>1, <3>1 DEF NoPeers
    <3>2. CASE response'[n][s] = Snapshot(s, n) /\ joining[n][s] = "added"
      <4>1. s # n
        BY <1>1, <3>2
      <4>2. QED
        BY <3>2, <4>1 DEF Snapshot
    <3>3. QED
      BY <3>1, <3>2, ResponseOrigins
  <2>2. QED
    BY <2>1
<1>3. CASE Tick
  BY <1>1, <1>2, <1>3 DEF Tick
<1>5. ASSUME NEW m \in Node, Crash(m)
      PROVE  /\ joining'[n][n] = "closed"
             /\ <<n, n>> \notin stray'
             /\ beats'[n][n] = 0
             /\ missed'[n][n] = 0
  BY <1>1, <1>5 DEF Crash, TypeOK
<1>6. ASSUME NEW m \in Node, SendHeartbeats(m) PROVE beats'[n][n] = 0
  <2>1. CASE m = n
    BY <1>6, <2>1, NoBeatToSelf
  <2>2. CASE m # n
    BY <1>1, <1>6, <2>2 DEF SendHeartbeats, TypeOK
  <2>3. QED
    BY <2>1, <2>2
<1>8. ASSUME NEW m \in Node, NEW q \in Node, HandleHeartbeat(m, q)
      PROVE  beats'[n][n] = 0 /\ missed'[n][n] = 0
  <2>1. ~(m = n /\ q = n)
    BY <1>1, <1>8 DEF HandleHeartbeat
  <2>2. beats'[n][n] = 0
    BY <1>1, <1>8, <2>1 DEF HandleHeartbeat, TypeOK
  <2>3. CASE UNCHANGED missed
    BY <1>1, <2>2, <2>3
  <2>4. CASE missed' = [missed EXCEPT ![m][q] = missed[m][q] + 1]
    <3>1. missed \in [Node -> [Node -> 0..MaxInFlight]]
      BY DEF TypeOK
    <3>2. missed'[n][n] = missed[n][n]
      BY <2>1, <2>4, <3>1
    <3>3. QED
      BY <1>1, <2>2, <3>2
  <2>5. UNCHANGED missed \/ missed' = [missed EXCEPT ![m][q] = missed[m][q] + 1]
    BY <1>8 DEF HandleHeartbeat
  <2>6. QED
    BY <2>2, <2>3, <2>4, <2>5
<1>9. ASSUME NEW m \in Node, NEW q \in Node, InsertDiscovered(m, q)
      PROVE  missed'[n][n] = 0
  <2>1. ~(m = n /\ q = n)
    BY <1>1, <1>9 DEF InsertDiscovered
  <2>2. QED
    BY <1>1, <1>9, <2>1 DEF InsertDiscovered, TypeOK
<1>10. joining'[n][n] = "closed"
  BY NextNoSelfJoin, SelfInvJoins DEF NoSelfJoin
<1>11. <<n, n>> \notin stray'
  <2>1. CASE UNCHANGED stray
    BY <1>1, <2>1
  <2>2. ASSUME NEW s \in Node, NEW m \in Node, HandleStrayJoin(s, m)
        PROVE  <<n, n>> \notin stray'
    BY <1>1, <2>2 DEF HandleStrayJoin
  <2>3. QED
    BY <1>5, <2>1, <2>2
    DEF Next, vars, Tick, Start, SendHeartbeats, HealthScan, Dial,
        HandleJoinRequest, SendJoinResponse, HandleJoinResponse,
        HandleHeartbeat, InsertDiscovered, HealthEvict
<1>12. beats'[n][n] = 0
  BY <1>1, <1>3, <1>5, <1>6, <1>8
  DEF Next, vars, Start, HealthScan, Dial, HandleJoinRequest, SendJoinResponse,
      HandleJoinResponse, HandleStrayJoin, InsertDiscovered, HealthEvict
<1>13. missed'[n][n] = 0
  BY <1>1, <1>3, <1>5, <1>8, <1>9
  DEF Next, vars, Start, SendHeartbeats, HealthScan, Dial, HandleJoinRequest,
      SendJoinResponse, HandleJoinResponse, HandleStrayJoin, HealthEvict
<1>14. QED
  BY <1>2, <1>10, <1>11, <1>12, <1>13

\* No step gives a node an entry of its own.
LEMMA SelfPeerNext ==
  ASSUME TypeOK, SelfInv, [Next]_vars
  PROVE  NoSelfPeer'
<1> SUFFICES ASSUME NEW n \in Node PROVE peers'[n][n].state = "absent"
  BY DEF NoSelfPeer, Known
<1>1. /\ peers[n][n] \in Entry
      /\ peers[n][n].state = "absent"
      /\ joining[n][n] = "closed"
      /\ <<n, n>> \notin stray
      /\ beats[n][n] = 0
      /\ missed[n][n] = 0
      /\ \A s \in Node : response[n][s][n] = NoPeer
  BY DEF TypeOK, SelfInv, NoSelfPeer, NoSelfTraffic, Known
<1>2. CASE UNCHANGED peers
  BY <1>1, <1>2
<1>3. CASE Tick
  BY <1>1, <1>3, OlderFacts DEF Tick
<1>4. ASSUME NEW m \in Node, Crash(m) PROVE peers'[n][n].state = "absent"
  BY <1>1, <1>4 DEF Crash, TypeOK, NoPeers, NoPeer
<1>5. ASSUME NEW m \in Node, HealthScan(m) PROVE peers'[n][n].state = "absent"
  BY <1>1, <1>5, CheckHealthFacts DEF HealthScan, TypeOK
<1>6. ASSUME NEW s \in Node, NEW m \in Node, HandleJoinRequest(s, m) \/ HandleStrayJoin(s, m)
      PROVE  peers'[n][n].state = "absent"
  <2>1. ~(s = n /\ m = n) /\ AddJoiner(s, m)
    BY <1>1, <1>6 DEF HandleJoinRequest, HandleStrayJoin
  <2>2. QED
    BY <1>1, <2>1 DEF AddJoiner, TypeOK
<1>7. ASSUME NEW m \in Node, NEW s \in Node, HandleJoinResponse(m, s)
      PROVE  peers'[n][n].state = "absent"
  <2>1. CASE m = n
    <3>1. peers'[n][n] = peers[n][n]
      BY <1>1, <1>7, <2>1 DEF HandleJoinResponse, Merge, TypeOK
    <3>2. QED
      BY <1>1, <3>1
  <2>2. CASE m # n
    BY <1>1, <1>7, <2>2 DEF HandleJoinResponse, TypeOK
  <2>3. QED
    BY <2>1, <2>2
<1>8. ASSUME NEW m \in Node, NEW q \in Node, HandleHeartbeat(m, q)
      PROVE  peers'[n][n].state = "absent"
  <2>1. ~(m = n /\ q = n)
    BY <1>1, <1>8 DEF HandleHeartbeat
  <2>2. CASE peers' = [peers EXCEPT ![m][q] = UpdateHeartbeat(peers[m][q], AssignedGroups[q])]
    BY <1>1, <2>1, <2>2 DEF TypeOK
  <2>3. QED
    BY <1>2, <1>8, <2>2 DEF HandleHeartbeat
<1>9. ASSUME NEW m \in Node, NEW q \in Node, InsertDiscovered(m, q)
      PROVE  peers'[n][n].state = "absent"
  <2>1. ~(m = n /\ q = n)
    BY <1>1, <1>9 DEF InsertDiscovered
  <2>2. QED
    BY <1>1, <1>9, <2>1 DEF InsertDiscovered, TypeOK
<1>10. ASSUME NEW m \in Node, NEW q \in Node, HealthEvict(m, q)
       PROVE  peers'[n][n].state = "absent"
  BY <1>1, <1>10 DEF HealthEvict, TypeOK, NoPeer
<1>11. QED
  BY <1>2, <1>3, <1>4, <1>5, <1>6, <1>7, <1>8, <1>9, <1>10
  DEF Next, vars, Start, SendHeartbeats, Dial, SendJoinResponse

\* A node whose peers announce addresses that name their interface never keeps
\* an entry for itself.  Direct cannot be dropped: with the wildcard address a
\* node dials itself and its own heartbeat makes it its own peer.
THEOREM NeverOwnPeer ==
  ASSUME Direct
  PROVE  Spec => []NoSelfPeer
<1>1. TypeOK /\ EntriesDescribeTheirNode /\ SelfInv /\ [Next]_vars => SelfInv'
  BY SelfTrafficNext, SelfPeerNext DEF SelfInv
<1>2. SelfInv => NoSelfPeer
  BY DEF SelfInv
<1>3. QED
  BY <1>1, <1>2, SelfInit, InitType, NextType, DescribesInit, DescribesNext, PTL DEF Spec

-----------------------------------------------------------------------------
(* Silence.                                                                *)

\* What travels in a response has no age.
NewsIsFresh == \A n, s, p \in Node : response[n][s][p].age = 0

\* A snapshot resets the age of everything in it, and every step keeps the
\* responses without age.
LEMMA NextNews == TypeOK /\ NewsIsFresh /\ [Next]_vars => NewsIsFresh'
<1> SUFFICES ASSUME TypeOK, NewsIsFresh, [Next]_vars,
                    NEW n \in Node, NEW s \in Node, NEW p \in Node
             PROVE  response'[n][s][p].age = 0
  BY DEF NewsIsFresh
<1>1. response[n][s][p].age = 0 /\ NoPeers[p].age = 0
  BY DEF NewsIsFresh, NoPeers, NoPeer
<1>2. Snapshot(s, n)[p].age = 0
  BY DEF Snapshot, RemoteWithGroups, NoPeer
<1>3. QED
  BY <1>1, <1>2, ResponseOrigins

\* An entry that a step neither ages, checks nor leaves alone has no age.
LEMMA FreshOrKept ==
  ASSUME TypeOK, NewsIsFresh, [Next]_vars, NEW n \in Node, NEW p \in Node, ~Tick
  PROVE  \/ peers'[n][p] = peers[n][p] /\ (p \in doomed[n] => p \in doomed'[n])
         \/ HealthScan(n) /\ peers'[n][p] = CheckHealth(peers[n][p])
         \/ peers'[n][p].age = 0
<1>1. CASE peers'[n][p] \in {NoPeer, Remote,
                             RemoteWithGroups(BindAddr[p], AssignedGroups[p]),
                             UpdateHeartbeat(peers[n][p], AssignedGroups[p])}
  BY <1>1 DEF NoPeer, Remote, RemoteWithGroups, UpdateHeartbeat
<1>2. CASE \E s \in Node : peers'[n][p] = response[n][s][p]
  BY <1>2 DEF NewsIsFresh
<1>3. QED
  BY <1>1, <1>2, EntryOrigins DEF EntryStep

\* Only time and the health checker of a running node move its timer, and only
\* the latter turns it back.
LEMMA CheckTimer ==
  ASSUME TypeOK, [Next]_vars, NEW n \in Node, up[n], up'[n], ~Tick, ~HealthScan(n)
  PROVE  sinceCheck'[n] = sinceCheck[n]
<1>1. ASSUME NEW m \in Node, Start(m) \/ Crash(m) PROVE sinceCheck'[n] = sinceCheck[n]
  <2>1. m # n
    BY <1>1 DEF Start, Crash, TypeOK
  <2>2. QED
    BY <1>1, <2>1 DEF Start, Crash, TypeOK
<1>2. ASSUME NEW m \in Node, m # n, HealthScan(m) PROVE sinceCheck'[n] = sinceCheck[n]
  BY <1>2 DEF HealthScan, TypeOK
<1>3. ASSUME NEW m \in Node, SendHeartbeats(m) PROVE sinceCheck' = sinceCheck
  BY <1>3 DEF SendHeartbeats
<1>4. ASSUME NEW m \in Node, NEW q \in Node,
             \/ Dial(m, q) \/ HandleJoinRequest(m, q) \/ SendJoinResponse(m, q)
             \/ HandleJoinResponse(m, q) \/ HandleStrayJoin(m, q)
             \/ HandleHeartbeat(m, q) \/ InsertDiscovered(m, q) \/ HealthEvict(m, q)
      PROVE  sinceCheck' = sinceCheck
  BY <1>4 DEF Dial, HandleJoinRequest, SendJoinResponse, HandleJoinResponse,
              HandleStrayJoin, HandleHeartbeat, InsertDiscovered, HealthEvict
<1>5. CASE UNCHANGED vars
  BY <1>5 DEF vars
<1>6. QED
  BY <1>1, <1>2, <1>3, <1>4, <1>5 DEF Next

\* An entry older than the down threshold by more than the time since the last
\* check has been found by that check and awaits its removal.  The property
\* follows because a check comes at the latest one period after the one before.
OldIsDoomed ==
  \A n, p \in Node : Known(n, p) =>
    /\ peers[n][p].age <= DownAfter + CheckEvery
    /\ peers[n][p].age > DownAfter + sinceCheck[n] => p \in doomed[n]

SilenceInv == TypeOK /\ NoSelfJoin /\ StoppedIsIdle /\ NewsIsFresh /\ OldIsDoomed

\* Every step keeps old entries doomed, if the clock waits for what is due.
LEMMA NextOldIsDoomed ==
  ASSUME Prompt
  PROVE  SilenceInv /\ [Next]_vars => OldIsDoomed'
<1> SUFFICES ASSUME SilenceInv, [Next]_vars, NEW n \in Node, NEW p \in Node, Known(n, p)'
             PROVE  /\ peers'[n][p].age <= DownAfter + CheckEvery
                    /\ peers'[n][p].age > DownAfter + sinceCheck'[n] => p \in doomed'[n]
  BY DEF OldIsDoomed
<1>0. /\ TypeOK /\ NewsIsFresh /\ StoppedIsIdle /\ StoppedIsIdle' /\ TypeOK'
      /\ peers[n][p] \in Entry /\ peers[n][p].age \in Nat
      /\ sinceCheck[n] \in Nat /\ sinceCheck'[n] \in Nat
      /\ DownAfter \in Nat /\ CheckEvery \in Nat /\ CheckEvery # 0
  <2>1. TypeOK' /\ StoppedIsIdle'
    BY NextType, NextIdle DEF SilenceInv
  <2>2. peers[n][p] \in Entry /\ sinceCheck[n] \in 0..CheckEvery /\ sinceCheck'[n] \in 0..CheckEvery
    BY <2>1 DEF SilenceInv, TypeOK
  <2>3. QED
    BY <2>1, <2>2, AgeBound, TimingAssumption DEF SilenceInv, Entry
<1>1. up'[n]
  BY <1>0 DEF StoppedIsIdle, Known, NoPeers, NoPeer
<1>2. Known(n, p) => /\ up[n]
                     /\ peers[n][p].age <= DownAfter + CheckEvery
                     /\ peers[n][p].age > DownAfter + sinceCheck[n] => p \in doomed[n]
  BY <1>0 DEF SilenceInv, OldIsDoomed, StoppedIsIdle, Known, NoPeers, NoPeer
<1>3. CASE Tick
  <2>1. peers'[n][p] = Older(peers[n][p])
    BY <1>3 DEF Tick
  <2>2. Known(n, p) /\ peers'[n][p].age <= peers[n][p].age + 1 /\ peers'[n][p].age \in Nat
    <3>1. Known(n, p)
      BY <1>0, <2>1, OlderFacts DEF Known
    <3>2. peers'[n][p].age \in {peers[n][p].age, peers[n][p].age + 1}
      BY <1>0, <2>1 DEF Older, Entry
    <3>3. QED
      BY <1>0, <3>1, <3>2
  <2>3. p \notin doomed[n] /\ sinceCheck[n] < CheckEvery
    BY <1>2, <1>3, <2>2 DEF Tick, Settled
  <2>4. sinceCheck'[n] = sinceCheck[n] + 1
    BY <1>2, <1>3, <2>2, <2>3 DEF Tick, Advance
  <2>5. QED
    BY <1>0, <1>2, <2>2, <2>3, <2>4
<1>4. CASE HealthScan(n)
  <2>1. /\ peers'[n][p] = CheckHealth(peers[n][p])
        /\ p \in doomed'[n] <=> CheckHealth(peers[n][p]).state = "down"
        /\ sinceCheck'[n] = 0
    BY <1>0, <1>4 DEF HealthScan, TypeOK
  <2>2. Known(n, p) /\ peers'[n][p].age = peers[n][p].age
    BY <1>0, <2>1, CheckHealthFacts DEF Known
  <2>3. peers[n][p].age > DownAfter => CheckHealth(peers[n][p]).state = "down"
    BY <1>0, <2>2 DEF CheckHealth, Known, Entry
  <2>4. QED
    BY <1>0, <1>2, <2>1, <2>2, <2>3
<1>5. CASE peers'[n][p].age = 0
  BY <1>0, <1>5
<1>6. CASE /\ ~Tick /\ ~HealthScan(n)
           /\ peers'[n][p] = peers[n][p] /\ (p \in doomed[n] => p \in doomed'[n])
  <2>1. Known(n, p)
    BY <1>6 DEF Known
  <2>2. sinceCheck'[n] = sinceCheck[n]
    BY <1>0, <1>1, <1>2, <1>6, <2>1, CheckTimer
  <2>3. QED
    BY <1>2, <1>6, <2>1, <2>2
<1>7. QED
  BY <1>0, <1>3, <1>4, <1>5, <1>6, FreshOrKept

\* If the timers are on time, no table keeps a peer that has been silent for
\* longer than the down threshold and one period of the checker.
THEOREM SilenceBounded ==
  ASSUME Prompt
  PROVE  Spec => []SilenceIsBounded
<1>1. Init => SilenceInv
  <2>1. Init => NewsIsFresh /\ OldIsDoomed
    BY DEF Init, NewsIsFresh, OldIsDoomed, Known, NoPeers, NoPeer
  <2>2. QED
    BY <2>1, InitType, InitIdle, InitNoSelfJoin DEF SilenceInv
<1>2. SilenceInv /\ [Next]_vars => SilenceInv'
  BY NextType, NextNoSelfJoin, NextIdle, NextNews, NextOldIsDoomed DEF SilenceInv
<1>3. SilenceInv => SilenceIsBounded
  BY DEF SilenceInv, OldIsDoomed, SilenceIsBounded
<1>4. QED
  BY <1>1, <1>2, <1>3, PTL DEF Spec

-----------------------------------------------------------------------------
(* Trust.                                                                  *)

\* No connection fails, timers are on time, a node starts only among settled
\* ones and dials every other node, and a heartbeat comes often enough to be
\* no later than the tick after the suspicion threshold.
Orderly ==
  /\ Prompt /\ ~Lossy /\ StartWhen = "settled"
  /\ \A n \in Node : Seeds[n] = Node \ {n}
  /\ HeartbeatEvery <= SuspectAfter + 1

Joins(n) == \E s \in Node : joining[n][s] # "closed"

\* p has yet to be told of n's join request to it.
Expected(n, p) == joining[n][p] \in {"dialling", "requested"}

\* Whoever left a request behind does not run: it starts again only once the
\* request has been read.
StraysAreStopped == \A n, p \in Node : <<n, p>> \in stray => ~up[n]

\* A joiner's table is of this moment.
JoinersAreFresh == \A n, p \in Node : Joins(n) => peers[n][p].age = 0

\* Whatever a running node holds of a joiner is of this moment, or the joiner's
\* request to it is still to come.
JoinersAreExpected ==
  \A n, p \in Node :
    n # p /\ Joins(p) /\ up[n] => peers[n][p].age = 0 \/ Expected(p, n)

\* Of two nodes that can reach each other, one has heard of the other since the
\* other's last round of heartbeats, unless its heartbeat or its join request
\* is on the way.
HeardSinceRound ==
  \A n, p \in Node : Mutual(n, p) =>
    \/ peers[n][p].age <= sinceBeat[p]
    \/ beats[p][n] > 0
    \/ Expected(p, n)

TrustInv ==
  /\ TypeOK /\ NoSelfJoin /\ StoppedIsIdle /\ NewsIsFresh
  /\ StraysAreStopped /\ JoinersAreFresh /\ JoinersAreExpected /\ HeardSinceRound

\* Only time makes an entry older.
LEMMA AgeKept ==
  ASSUME TypeOK, NewsIsFresh, [Next]_vars, NEW n \in Node, NEW p \in Node, ~Tick
  PROVE  peers'[n][p].age \in {peers[n][p].age, 0}
<1>1. peers[n][p] \in Entry
  BY DEF TypeOK
<1>2. QED
  BY <1>1, FreshOrKept, CheckHealthFacts

\* Only a start makes a stopped node run.
LEMMA StartedBy ==
  ASSUME TypeOK, [Next]_vars, NEW n \in Node, ~up[n], up'[n]
  PROVE  Start(n)
<1>1. ASSUME NEW m \in Node, Start(m) PROVE Start(n)
  BY <1>1 DEF Start, TypeOK
<1>2. ASSUME NEW m \in Node, Crash(m) PROVE FALSE
  BY <1>2 DEF Crash, TypeOK
<1>3. ASSUME NEW m \in Node, SendHeartbeats(m) \/ HealthScan(m) PROVE UNCHANGED up
  BY <1>3 DEF SendHeartbeats, HealthScan
<1>4. ASSUME NEW m \in Node, NEW q \in Node,
             \/ Dial(m, q) \/ HandleJoinRequest(m, q) \/ SendJoinResponse(m, q)
             \/ HandleJoinResponse(m, q) \/ HandleStrayJoin(m, q)
             \/ HandleHeartbeat(m, q) \/ InsertDiscovered(m, q) \/ HealthEvict(m, q)
      PROVE  UNCHANGED up
  BY <1>4 DEF Dial, HandleJoinRequest, SendJoinResponse, HandleJoinResponse,
              HandleStrayJoin, HandleHeartbeat, InsertDiscovered, HealthEvict
<1>5. CASE Tick \/ UNCHANGED vars
  BY <1>5 DEF Tick, vars
<1>6. QED
  BY <1>1, <1>2, <1>3, <1>4, <1>5 DEF Next

\* What one step may do to the join of p through s.
LEMMA JoinMoves ==
  ASSUME TypeOK, [Next]_vars, NEW p \in Node, NEW s \in Node
  PROVE  \/ joining'[p][s] = joining[p][s]
         \/ Start(p)
         \/ (Crash(p) \/ Crash(s)) /\ joining'[p][s] = "closed"
         \/ joining[p][s] = "dialling" /\ (joining'[p][s] = "requested" \/ ~up[s] \/ Lossy)
         \/ joining[p][s] = "requested" /\ HandleJoinRequest(s, p)
         \/ joining[p][s] \in {"added", "answered"}
<1> DEFINE Goal == \/ joining'[p][s] = joining[p][s]
                   \/ Start(p)
                   \/ (Crash(p) \/ Crash(s)) /\ joining'[p][s] = "closed"
                   \/ joining[p][s] = "dialling" /\ (joining'[p][s] = "requested" \/ ~up[s] \/ Lossy)
                   \/ joining[p][s] = "requested" /\ HandleJoinRequest(s, p)
                   \/ joining[p][s] \in {"added", "answered"}
<1>1. ASSUME NEW m \in Node, Start(m) PROVE Goal
  <2>1. CASE m # p
    BY <1>1, <2>1 DEF Start, TypeOK
  <2>2. QED
    BY <1>1, <2>1
<1>2. ASSUME NEW m \in Node, Crash(m) PROVE Goal
  <2>1. joining'[p][s] = IF p = m \/ (s = m /\ joining[p][s] \in {"requested", "added"})
                           THEN "closed" ELSE joining[p][s]
    BY <1>2 DEF Crash
  <2>2. QED
    BY <1>2, <2>1
<1>3. ASSUME NEW m \in Node, NEW q \in Node, NEW phase, ~(m = p /\ q = s),
             joining' = [joining EXCEPT ![m][q] = phase]
      PROVE  joining'[p][s] = joining[p][s]
  BY <1>3 DEF TypeOK
<1>4. ASSUME NEW m \in Node, NEW q \in Node, Dial(m, q) PROVE Goal
  <2>1. PICK phase \in {"requested", "closed"} :
          /\ joining' = [joining EXCEPT ![m][q] = phase]
          /\ phase = "closed" => ~up[q] \/ Lossy
    BY <1>4 DEF Dial
  <2>2. CASE m = p /\ q = s
    <3>1. joining'[p][s] = phase
      BY <2>1, <2>2 DEF TypeOK
    <3>2. QED
      BY <1>4, <2>1, <2>2, <3>1 DEF Dial
  <2>3. QED
    BY <1>3, <2>1, <2>2
<1>5. ASSUME NEW m \in Node, NEW q \in Node,
             \/ HandleJoinRequest(q, m) \/ SendJoinResponse(q, m) \/ HandleJoinResponse(m, q)
      PROVE  Goal
  <2>1. PICK phase \in JoinPhase : joining' = [joining EXCEPT ![m][q] = phase]
    BY <1>5, PhaseType DEF HandleJoinRequest, SendJoinResponse, HandleJoinResponse
  <2>2. CASE m = p /\ q = s
    BY <1>5, <2>2 DEF HandleJoinRequest, SendJoinResponse, HandleJoinResponse
  <2>3. QED
    BY <1>3, <2>1, <2>2
<1>6. ASSUME NEW m \in Node, SendHeartbeats(m) \/ HealthScan(m) PROVE joining' = joining
  BY <1>6 DEF SendHeartbeats, HealthScan
<1>7. ASSUME NEW m \in Node, NEW q \in Node,
             \/ HandleStrayJoin(m, q) \/ HandleHeartbeat(m, q) \/ InsertDiscovered(m, q)
             \/ HealthEvict(m, q)
      PROVE  joining' = joining
  BY <1>7 DEF HandleStrayJoin, HandleHeartbeat, InsertDiscovered, HealthEvict
<1>8. CASE Tick \/ UNCHANGED vars
  BY <1>8 DEF Tick, vars
<1>9. QED
  BY <1>1, <1>2, <1>4, <1>5, <1>6, <1>7, <1>8 DEF Next

\* Only a start opens joins, and the clock does not advance with one open.
LEMMA JoinsBefore ==
  ASSUME TypeOK, [Next]_vars, Prompt, NEW p \in Node, Joins(p)'
  PROVE  ~Tick /\ ~Crash(p) /\ (Joins(p) \/ Start(p))
<1>1. PICK s \in Node : joining'[p][s] # "closed"
  BY DEF Joins
<1>2. ~Tick
  BY <1>1 DEF Tick, Settled, NobodyJoins
<1>3. ~Crash(p)
  BY <1>1 DEF Crash, TypeOK
<1>4. joining[p][s] # "closed" \/ Start(p)
  BY <1>1, JoinMoves
<1>5. QED
  BY <1>2, <1>3, <1>4 DEF Joins

\* The requests of stopped nodes.
LEMMA NextStrays ==
  Orderly /\ TypeOK /\ StraysAreStopped /\ [Next]_vars => StraysAreStopped'
<1> SUFFICES ASSUME Orderly, TypeOK, StraysAreStopped, [Next]_vars,
                    NEW n \in Node, NEW p \in Node, <<n, p>> \in stray', up'[n]
             PROVE  FALSE
  BY DEF StraysAreStopped
<1>1. ASSUME NEW m \in Node, Start(m) PROVE FALSE
  BY <1>1 DEF Start, Orderly, Settled, NobodyJoins
<1>2. up[n]
  BY <1>1, StartedBy
<1>3. <<n, p>> \notin stray
  BY <1>2 DEF StraysAreStopped
<1>4. ASSUME NEW m \in Node, Crash(m) PROVE FALSE
  <2>1. m # n
    BY <1>4 DEF Crash, TypeOK
  <2>2. QED
    BY <1>3, <1>4, <2>1 DEF Crash
<1>5. ASSUME NEW s \in Node, NEW m \in Node, HandleStrayJoin(s, m) PROVE FALSE
  BY <1>3, <1>5 DEF HandleStrayJoin
<1>6. ASSUME NEW m \in Node, SendHeartbeats(m) \/ HealthScan(m) PROVE stray' = stray
  BY <1>6 DEF SendHeartbeats, HealthScan
<1>7. ASSUME NEW m \in Node, NEW q \in Node,
             \/ Dial(m, q) \/ HandleJoinRequest(m, q) \/ SendJoinResponse(m, q)
             \/ HandleJoinResponse(m, q) \/ HandleHeartbeat(m, q) \/ InsertDiscovered(m, q)
             \/ HealthEvict(m, q)
      PROVE  stray' = stray
  BY <1>7 DEF Dial, HandleJoinRequest, SendJoinResponse, HandleJoinResponse,
              HandleHeartbeat, InsertDiscovered, HealthEvict
<1>8. CASE Tick \/ UNCHANGED vars
  BY <1>3, <1>8 DEF Tick, vars
<1>9. QED
  BY <1>1, <1>3, <1>4, <1>5, <1>6, <1>7, <1>8 DEF Next

\* A joiner starts with an empty table, and time stands still while it joins.
LEMMA NextJoiners ==
  ASSUME Orderly, TrustInv, [Next]_vars
  PROVE  JoinersAreFresh'
<1> SUFFICES ASSUME NEW n \in Node, NEW p \in Node, Joins(n)'
             PROVE  peers'[n][p].age = 0
  BY DEF JoinersAreFresh
<1>1. ~Tick /\ (Joins(n) \/ Start(n)) /\ TypeOK /\ NewsIsFresh
  BY JoinsBefore DEF Orderly, TrustInv
<1>2. peers[n][p].age = 0
  <2>1. CASE Joins(n)
    BY <2>1 DEF TrustInv, JoinersAreFresh
  <2>2. CASE Start(n)
    BY <2>2 DEF Start, TrustInv, StoppedIsIdle, NoPeers, NoPeer
  <2>3. QED
    BY <1>1, <2>1, <2>2
<1>3. QED
  BY <1>1, <1>2, AgeKept

\* The request of a join reaches a node after its start and before anything
\* makes that node's entry for the joiner older.
LEMMA NextExpected ==
  ASSUME Orderly, TrustInv, [Next]_vars
  PROVE  JoinersAreExpected'
<1> SUFFICES ASSUME NEW n \in Node, NEW p \in Node, n # p, Joins(p)', up'[n]
             PROVE  peers'[n][p].age = 0 \/ Expected(p, n)'
  BY DEF JoinersAreExpected
<1>1. ~Tick /\ ~Crash(p) /\ (Joins(p) \/ Start(p)) /\ TypeOK /\ NewsIsFresh
  BY JoinsBefore DEF Orderly, TrustInv
<1>2. ~Crash(n)
  BY <1>1 DEF Crash, TypeOK
<1>3. CASE Start(p)
  <2>1. joining'[p][n] = "dialling"
    BY <1>1, <1>3 DEF Start, Orderly, TypeOK
  <2>2. QED
    BY <2>1 DEF Expected
<1>4. CASE Joins(p) /\ ~Start(p)
  <2>1. up[n]
    <3>1. ASSUME Start(n) PROVE FALSE
      BY <1>4, <3>1 DEF Start, Orderly, Settled, NobodyJoins, Joins
    <3>2. QED
      BY <1>1, <3>1, StartedBy
  <2>2. peers[n][p].age = 0 \/ Expected(p, n)
    BY <1>4, <2>1 DEF TrustInv, JoinersAreExpected
  <2>3. CASE peers[n][p].age = 0
    BY <1>1, <2>3, AgeKept
  <2>4. CASE Expected(p, n)
    <3>1. CASE joining'[p][n] = joining[p][n] \/ joining'[p][n] = "requested"
      BY <2>4, <3>1 DEF Expected
    <3>2. CASE HandleJoinRequest(n, p)
      BY <1>1, <3>2 DEF HandleJoinRequest, AddJoiner, RemoteWithGroups, TypeOK
    <3>3. QED
      BY <1>1, <1>2, <1>4, <2>1, <2>4, <3>1, <3>2, JoinMoves DEF Expected, Orderly
  <2>5. QED
    BY <2>2, <2>3, <2>4
<1>5. QED
  BY <1>1, <1>3, <1>4

\* A complete round reaches every node that the sender holds at its address.
LEMMA RoundReaches ==
  ASSUME ~Lossy, TypeOK, NEW n \in Node, NEW p \in Node, Mutual(n, p), SendHeartbeats(p)
  PROVE  beats'[p][n] > 0
<1>1. PICK reached \in SUBSET {q \in Node : Known(p, q)} :
        /\ \A q \in Node : Known(p, q) => q \in reached
        /\ beats' = [beats EXCEPT ![p] = [q \in Node |-> InFlight(p, reached, q)]]
  BY DEF SendHeartbeats
<1> DEFINE hit == {q \in reached : Target(p, peers[p][q].addr) = n /\ up[n]}
<1>2. n \in hit
  BY <1>1, AddressAssumption DEF Mutual, Target
<1>3. IsFiniteSet(hit)
  BY NodeAssumption, FS_Subset
<1>4. Cardinality(hit) \in Nat /\ Cardinality(hit) # 0
  BY <1>2, <1>3, FS_CardinalityType, FS_EmptySet
<1>5. beats[p][n] \in Nat
  BY TimingAssumption DEF TypeOK
<1>6. InFlight(p, reached, n) = beats[p][n] + Cardinality(hit)
  BY DEF InFlight
<1>7. beats'[p][n] = InFlight(p, reached, n)
  BY <1>1 DEF TypeOK
<1>8. QED
  BY <1>4, <1>5, <1>6, <1>7

\* The timer of a running sender and what it has on the way to a running node
\* change by its rounds, by the handler and by time.
LEMMA BeatMoves ==
  ASSUME TypeOK, [Next]_vars, NEW n \in Node, NEW p \in Node,
         up[n], up'[n], up[p], up'[p], ~Tick
  PROVE  \/ SendHeartbeats(p)
         \/ HandleHeartbeat(n, p)
         \/ sinceBeat'[p] = sinceBeat[p] /\ beats'[p][n] = beats[p][n]
<1> DEFINE Same == sinceBeat'[p] = sinceBeat[p] /\ beats'[p][n] = beats[p][n]
<1>1. ASSUME NEW m \in Node, Start(m) PROVE Same
  BY <1>1 DEF Start, TypeOK
<1>2. ASSUME NEW m \in Node, Crash(m) PROVE Same
  <2>1. m # n /\ m # p
    BY <1>2 DEF Crash, TypeOK
  <2>2. QED
    BY <1>2, <2>1 DEF Crash, TypeOK
<1>3. ASSUME NEW m \in Node, m # p, SendHeartbeats(m) PROVE Same
  BY <1>3 DEF SendHeartbeats, TypeOK
<1>4. ASSUME NEW m \in Node, NEW q \in Node, ~(m = n /\ q = p), HandleHeartbeat(m, q) PROVE Same
  BY <1>4 DEF HandleHeartbeat, TypeOK
<1>5. ASSUME NEW m \in Node, HealthScan(m) PROVE Same
  BY <1>5 DEF HealthScan
<1>6. ASSUME NEW m \in Node, NEW q \in Node,
             \/ Dial(m, q) \/ HandleJoinRequest(m, q) \/ SendJoinResponse(m, q)
             \/ HandleJoinResponse(m, q) \/ HandleStrayJoin(m, q) \/ InsertDiscovered(m, q)
             \/ HealthEvict(m, q)
      PROVE  Same
  BY <1>6 DEF Dial, HandleJoinRequest, SendJoinResponse, HandleJoinResponse,
              HandleStrayJoin, InsertDiscovered, HealthEvict
<1>7. CASE UNCHANGED vars
  BY <1>7 DEF vars
<1>8. QED
  BY <1>1, <1>2, <1>3, <1>4, <1>5, <1>6, <1>7 DEF Next

\* If two nodes can reach each other after a step and not before, one of them
\* has just joined the other: its entry for the other is of this moment, or its
\* request is on the way.
LEMMA MutualBefore ==
  ASSUME Orderly, TrustInv, [Next]_vars, ~Tick, NEW n \in Node, NEW p \in Node,
         Mutual(n, p)', up[n], up[p], peers'[n][p].age # 0
  PROVE  Mutual(n, p) \/ Expected(p, n)'
<1>0. /\ TypeOK /\ NewsIsFresh /\ n # p
      /\ peers[n][p] \in Entry /\ peers[p][n] \in Entry
  BY DEF TrustInv, TypeOK, Mutual
<1>1. Known(n, p) /\ peers[n][p].addr = p /\ peers[n][p].age = peers'[n][p].age
  <2>1. peers'[n][p] \in {peers[n][p], CheckHealth(peers[n][p])}
    BY <1>0, FreshOrKept
  <2>2. QED
    BY <1>0, <2>1, CheckHealthFacts DEF Mutual, Known
<1>2. CASE peers'[p][n] \in {peers[p][n], CheckHealth(peers[p][n]),
                             UpdateHeartbeat(peers[p][n], AssignedGroups[n])} /\ Known(p, n)
  <2>1. peers[p][n].addr = peers'[p][n].addr
    BY <1>0, <1>2, CheckHealthFacts DEF UpdateHeartbeat
  <2>2. QED
    BY <1>0, <1>1, <1>2, <2>1 DEF Mutual
<1>3. CASE peers'[p][n] \in {NoPeer, Remote}
  BY <1>0, <1>3, AddressAssumption DEF Mutual, Known, NoPeer, Remote
<1>4. CASE HandleJoinRequest(p, n)
  <2>1. Joins(n)
    BY <1>4 DEF HandleJoinRequest, Joins
  <2>2. QED
    BY <1>1, <2>1 DEF TrustInv, JoinersAreFresh
<1>5. CASE HandleStrayJoin(p, n)
  BY <1>5 DEF HandleStrayJoin, TrustInv, StraysAreStopped
<1>6. ASSUME NEW s \in Node, HandleJoinResponse(p, s) PROVE Expected(p, n)'
  <2>1. joining[p][s] = "answered" /\ joining' = [joining EXCEPT ![p][s] = "closed"]
    BY <1>6 DEF HandleJoinResponse
  <2>2. Expected(p, n)
    BY <1>0, <1>1, <2>1 DEF Joins, TrustInv, JoinersAreExpected
  <2>3. s # n
    BY <2>1, <2>2 DEF Expected
  <2>4. QED
    BY <1>0, <2>1, <2>2, <2>3 DEF Expected, TypeOK
<1>7. Known(p, n) \/ peers'[p][n] # peers[p][n]
  BY DEF Mutual, Known
<1>8. peers'[p][n] = CheckHealth(peers[p][n]) => Known(p, n)
  BY <1>0, CheckHealthFacts DEF Mutual, Known
<1>9. QED
  BY <1>0, <1>2, <1>3, <1>4, <1>5, <1>6, <1>7, <1>8, EntryOrigins DEF EntryStep

\* Every round of heartbeats brings an entry up to date before the next one.
LEMMA NextHeard ==
  ASSUME Orderly, TrustInv, [Next]_vars
  PROVE  HeardSinceRound'
<1> SUFFICES ASSUME NEW n \in Node, NEW p \in Node, Mutual(n, p)'
             PROVE  \/ peers'[n][p].age <= sinceBeat'[p]
                    \/ beats'[p][n] > 0
                    \/ Expected(p, n)'
  BY DEF HeardSinceRound
<1>0. /\ TypeOK /\ TypeOK' /\ NewsIsFresh /\ n # p /\ up'[n] /\ up'[p]
      /\ peers[n][p] \in Entry /\ peers[p][n] \in Entry
      /\ peers[n][p].age \in Nat /\ peers'[n][p].age \in Nat
      /\ sinceBeat[p] \in Nat /\ sinceBeat'[p] \in Nat /\ HeartbeatEvery \in Nat
  <2>1. TypeOK /\ TypeOK' /\ NewsIsFresh
    BY NextType DEF TrustInv
  <2>2. peers[n][p] \in Entry /\ peers[p][n] \in Entry /\ peers'[n][p] \in Entry
    BY <2>1 DEF TypeOK
  <2>3. sinceBeat[p] \in 0..HeartbeatEvery /\ sinceBeat'[p] \in 0..HeartbeatEvery
    BY <2>1 DEF TypeOK
  <2>4. QED
    BY <2>1, <2>2, <2>3, AgeBound, TimingAssumption DEF Entry, Mutual
<1>1. up[n] /\ up[p]
  <2>1. ASSUME NEW m \in Node, NEW q \in Node, Start(m), Known(m, q)' PROVE FALSE
    BY <2>1 DEF Start, TrustInv, StoppedIsIdle, Known, NoPeers, NoPeer
  <2>2. QED
    BY <1>0, <2>1, StartedBy DEF Mutual
<1>2. CASE Tick
  <2>1. peers'[n][p] = Older(peers[n][p]) /\ peers'[p][n] = Older(peers[p][n])
    BY <1>2 DEF Tick
  <2>2. Mutual(n, p)
    BY <1>0, <1>1, <2>1, OlderFacts DEF Mutual, Known
  <2>3. peers'[n][p].age <= peers[n][p].age + 1
    <3>1. peers'[n][p].age \in {peers[n][p].age, peers[n][p].age + 1}
      BY <1>0, <2>1 DEF Older, Entry
    <3>2. QED
      BY <1>0, <3>1
  <2>4. Settled
    BY <1>2 DEF Tick, Orderly
  <2>5. peers[n][p].age <= sinceBeat[p] /\ sinceBeat[p] < HeartbeatEvery
    BY <1>0, <1>1, <2>2, <2>4 DEF TrustInv, HeardSinceRound, Settled, NobodyJoins, Expected
  <2>6. sinceBeat'[p] = sinceBeat[p] + 1
    BY <1>1, <1>2, <2>5 DEF Tick, Advance
  <2>7. QED
    BY <1>0, <2>3, <2>5, <2>6
<1>3. CASE ~Tick /\ peers'[n][p].age = 0
  BY <1>0, <1>3
<1>4. CASE ~Tick /\ peers'[n][p].age # 0
  <2>1. ~HandleHeartbeat(n, p)
    BY <1>0, <1>4 DEF HandleHeartbeat, UpdateHeartbeat, Mutual, Known, TypeOK
  <2>2. ~HandleJoinRequest(n, p)
    BY <1>0, <1>4 DEF HandleJoinRequest, AddJoiner, RemoteWithGroups, TypeOK
  <2>3. CASE Mutual(n, p)
    <3>1. CASE SendHeartbeats(p)
      BY <1>0, <2>3, <3>1, RoundReaches DEF Orderly
    <3>2. CASE sinceBeat'[p] = sinceBeat[p] /\ beats'[p][n] = beats[p][n]
      <4>1. CASE peers[n][p].age <= sinceBeat[p]
        <5>1. peers'[n][p].age = peers[n][p].age
          BY <1>0, <1>4, AgeKept
        <5>2. QED
          BY <3>2, <4>1, <5>1
      <4>2. CASE beats[p][n] > 0
        BY <3>2, <4>2
      <4>3. CASE Expected(p, n)
        <5>1. ~Start(p) /\ ~Crash(p) /\ ~Crash(n)
          BY <1>0, <1>1 DEF Start, Crash, TypeOK
        <5>2. joining'[p][n] = joining[p][n] \/ joining'[p][n] = "requested"
          BY <1>0, <1>1, <2>2, <4>3, <5>1, JoinMoves DEF Expected, Orderly
        <5>3. QED
          BY <4>3, <5>2 DEF Expected
      <4>4. QED
        BY <2>3, <4>1, <4>2, <4>3 DEF TrustInv, HeardSinceRound
    <3>3. QED
      BY <1>0, <1>1, <1>4, <2>1, <3>1, <3>2, BeatMoves
  <2>4. QED
    BY <1>1, <1>4, <2>3, MutualBefore
<1>5. QED
  BY <1>2, <1>3, <1>4

\* In an orderly cluster no two nodes that can reach each other suspect each
\* other once everything due is done, whatever nodes have crashed and come
\* back.  The age of an entry stays below the period of the heartbeats, which
\* is why that period must not exceed the suspicion threshold by more than the
\* tick in which a check follows a heartbeat.  A connection that fails, a peer
\* that nobody dials, or a period one tick longer each break it.
THEOREM MutualTrust ==
  ASSUME Orderly
  PROVE  Spec => []MutualPeersAreTrusted
<1>1. Init => TrustInv /\ ResponsesAreFresh /\ VerdictsAreEarned
  <2>1. Init => NewsIsFresh /\ ResponsesAreFresh /\ VerdictsAreEarned
    BY DEF Init, NewsIsFresh, ResponsesAreFresh, VerdictsAreEarned, NoPeers, NoPeer
  <2>2. Init => StraysAreStopped /\ JoinersAreFresh /\ JoinersAreExpected /\ HeardSinceRound
    BY DEF Init, StraysAreStopped, JoinersAreFresh, JoinersAreExpected, HeardSinceRound,
           Joins, Mutual
  <2>3. QED
    BY <2>1, <2>2, InitType, InitIdle, InitNoSelfJoin DEF TrustInv
<1>2. TrustInv /\ [Next]_vars => TrustInv'
  BY NextType, NextNoSelfJoin, NextIdle, NextNews, NextStrays, NextJoiners, NextExpected,
     NextHeard DEF TrustInv
<1>3. TrustInv /\ ResponsesAreFresh /\ VerdictsAreEarned /\ [Next]_vars
        => ResponsesAreFresh' /\ VerdictsAreEarned'
  BY FreshNext, VerdictsNext DEF TrustInv
<1>4. TrustInv /\ VerdictsAreEarned => MutualPeersAreTrusted
  <2> SUFFICES ASSUME TrustInv, VerdictsAreEarned, Settled,
                      NEW n \in Node, NEW p \in Node, Mutual(n, p)
               PROVE  peers[n][p].state \notin {"suspect", "down"}
    BY DEF MutualPeersAreTrusted
  <2>1. peers[n][p].age \in Nat /\ sinceBeat[p] \in Nat
    <3>1. peers[n][p] \in Entry /\ sinceBeat[p] \in 0..HeartbeatEvery
      BY DEF TrustInv, TypeOK
    <3>2. QED
      BY <3>1, AgeBound, TimingAssumption DEF Entry
  <2>2. sinceBeat[p] < HeartbeatEvery /\ peers[n][p].age <= sinceBeat[p]
    BY <2>1 DEF TrustInv, HeardSinceRound, Settled, NobodyJoins, Mutual, Expected
  <2>3. peers[n][p].age <= SuspectAfter /\ peers[n][p].age <= DownAfter
    BY <2>1, <2>2, TimingAssumption DEF Orderly
  <2>4. ~(peers[n][p].age > SuspectAfter) /\ ~(peers[n][p].age > DownAfter)
    BY <2>1, <2>3, TimingAssumption
  <2>5. QED
    BY <2>4 DEF VerdictsAreEarned
<1>5. QED
  BY <1>1, <1>2, <1>3, <1>4, PTL DEF Spec
=============================================================================
