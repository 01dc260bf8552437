------------------------ MODULE MembershipRefinement ------------------------
(***************************************************************************)
(* Membership implements PeerView, for every cluster whose nodes announce  *)
(* addresses of their own, every timing and every loss of messages.        *)
(***************************************************************************)
EXTENDS MembershipProofs

\* The invariant under which every step is a step of PeerView.
RInv == TypeOK /\ EntriesDescribeTheirNode /\ SelfInv /\ ResponsesAreFresh /\ StoppedIsIdle

\* The invariant holds in every reachable state.
LEMMA RInvHolds ==
  ASSUME Direct
  PROVE  (Init => RInv) /\ (RInv /\ [Next]_vars => RInv')
<1>1. Init => RInv
  <2>1. Init => ResponsesAreFresh
    BY DEF Init, ResponsesAreFresh, NoPeers
  <2>2. QED
    BY <2>1, InitType, DescribesInit, SelfInit, InitIdle DEF RInv
<1>2. RInv /\ [Next]_vars => RInv'
  BY NextType, DescribesNext, SelfTrafficNext, SelfPeerNext, FreshNext, NextIdle,
     SelfInvJoins
  DEF RInv, SelfInv
<1>3. QED
  BY <1>1, <1>2

-----------------------------------------------------------------------------
(* Every step is a step of PeerView.                                       *)

Running == {n \in Node : up[n]}
Views == [n \in Node |-> [p \in Node |-> Heard(n, p)]]

\* A truthful entry is told apart as one of the four kinds.
LEMMA HeardType ==
  ASSUME EntriesDescribeTheirNode, NEW n \in Node, NEW p \in Node
  PROVE  /\ Heard(n, p) \in Table!Knowledge
         /\ Heard(n, p) = "absent" <=> ~Known(n, p)
  BY DEF EntriesDescribeTheirNode, Describes, Heard, Known, Table!Knowledge

\* Entries with the same groups, both known or both absent, read the same.
LEMMA HeardSame ==
  ASSUME NEW n \in Node, NEW p \in Node,
         peers'[n][p].state = "absent" <=> peers[n][p].state = "absent",
         peers'[n][p].groups = peers[n][p].groups,
         peers'[n][p].addr = peers[n][p].addr
  PROVE  Heard(n, p)' = Heard(n, p)
  BY DEF Heard, Known

\* A step that changes neither what runs nor what the tables say.
LEMMA StutterStep ==
  ASSUME UNCHANGED up, \A n, p \in Node : Heard(n, p)' = Heard(n, p)
  PROVE  UNCHANGED Table!vars
  BY DEF Table!vars

\* A step that may change the table of one running node and removes nothing
\* from it is a Learn.
LEMMA LearnStep ==
  ASSUME EntriesDescribeTheirNode', NoSelfPeer', UNCHANGED up, NEW n \in Node, up[n],
         \A m, p \in Node : m # n => peers'[m][p] = peers[m][p],
         \A p \in Node : Known(n, p)' \/ peers'[n][p] = peers[n][p]
  PROVE  Table!Next
<1> DEFINE row == [p \in Node |-> Heard(n, p)']
<1>1. \A p \in Node : Heard(n, p)' \in Table!Knowledge
  BY HeardType DEF EntriesDescribeTheirNode, Describes, Heard, Known, Table!Knowledge
<1>2. row \in [Node -> Table!Knowledge]
  BY <1>1
<1>3. row[n] = "absent"
  BY DEF NoSelfPeer, Heard
<1>4. \A m, p \in Node : m # n => Heard(m, p)' = Heard(m, p)
  BY DEF Heard, Known
<1>5. ASSUME NEW p \in Node PROVE row[p] = Views[n][p] \/ row[p] # "absent"
  BY DEF Heard, Known, Views
<1>6. Views' = [Views EXCEPT ![n] = row]
  BY <1>4 DEF Views
<1>7. n \in Running /\ UNCHANGED Running
  BY DEF Running
<1>8. Table!Learn(n, row)
  BY <1>3, <1>5, <1>6, <1>7 DEF Table!Learn, Views, Running
<1>9. QED
  BY <1>2, <1>8 DEF Table!Next

\* Handlers run on nodes that run, and so does the checker.
LEMMA WorkersRun ==
  ASSUME RInv, NEW n \in Node, NEW m \in Node,
         \/ joining[n][m] # "closed"
         \/ joining[m][n] \in {"requested", "added"}
         \/ <<m, n>> \in stray
         \/ beats[m][n] > 0
         \/ missed[n][m] > 0
         \/ m \in doomed[n]
  PROVE  up[n]
<1>1. SUFFICES ASSUME ~up[n] PROVE FALSE
  OBVIOUS
<1>2. /\ joining[n][m] = "closed"
      /\ joining[m][n] \notin {"requested", "added"}
      /\ <<m, n>> \notin stray
      /\ beats[m][n] = 0
      /\ missed[n][m] = 0
      /\ doomed[n] = {}
  BY <1>1 DEF RInv, StoppedIsIdle
<1>3. QED
  BY <1>2

\* Each action of Membership is an action of PeerView or changes nothing there.
LEMMA NextImplements ==
  RInv /\ RInv' /\ [Next]_vars => [Table!Next]_(Table!vars)
<1> SUFFICES ASSUME RInv, RInv', [Next]_vars PROVE Table!Next \/ UNCHANGED Table!vars
  OBVIOUS
<1>0. /\ TypeOK /\ EntriesDescribeTheirNode
      /\ EntriesDescribeTheirNode' /\ NoSelfPeer'
      /\ \A n, p \in Node : peers[n][p] \in Entry
  BY DEF RInv, SelfInv, TypeOK
<1>1. CASE Tick
  <2>1. ASSUME NEW n \in Node, NEW p \in Node PROVE Heard(n, p)' = Heard(n, p)
    <3>1. peers'[n][p] = Older(peers[n][p])
      BY <1>1 DEF Tick
    <3>2. QED
      BY <1>0, <3>1, OlderFacts, HeardSame
  <2>2. QED
    BY <1>1, <2>1, StutterStep DEF Tick
<1>2. ASSUME NEW n \in Node, Start(n) PROVE Table!Next
  <2>1. n \notin Running /\ Running' = Running \cup {n}
    BY <1>0, <1>2 DEF Start, Running, TypeOK
  <2>2. Views' = Views
    BY <1>2 DEF Start, Views, Heard, Known
  <2>3. Table!Start(n)
    BY <2>1, <2>2 DEF Table!Start, Running, Views
  <2>4. QED
    BY <2>3 DEF Table!Next
<1>3. ASSUME NEW n \in Node, Crash(n) PROVE Table!Next
  <2>1. n \in Running /\ Running' = Running \ {n}
    BY <1>0, <1>3 DEF Crash, Running, TypeOK
  <2>2. /\ \A p \in Node : peers'[n][p] = NoPeer
        /\ \A m \in Node : m # n => peers'[m] = peers[m]
    BY <1>0, <1>3 DEF Crash, TypeOK, NoPeers
  <2>3. /\ \A p \in Node : Heard(n, p)' = "absent"
        /\ \A m, p \in Node : m # n => Heard(m, p)' = Heard(m, p)
    BY <2>2 DEF Heard, Known, NoPeer
  <2>4. Views' = [Views EXCEPT ![n] = Table!Empty]
    BY <2>3 DEF Views, Table!Empty
  <2>5. Table!Stop(n)
    BY <2>1, <2>4 DEF Table!Stop, Running, Views
  <2>6. QED
    BY <2>5 DEF Table!Next
<1>4. ASSUME UNCHANGED <<up, peers>> PROVE UNCHANGED Table!vars
  BY <1>4, StutterStep DEF Heard, Known
<1>5. ASSUME NEW n \in Node, HealthScan(n) PROVE UNCHANGED Table!vars
  <2>1. ASSUME NEW m \in Node, NEW p \in Node PROVE Heard(m, p)' = Heard(m, p)
    <3>1. peers'[m][p] = peers[m][p] \/ peers'[m][p] = CheckHealth(peers[m][p])
      BY <1>0, <1>5 DEF HealthScan, TypeOK
    <3>2. QED
      BY <1>0, <3>1, CheckHealthFacts, HeardSame
  <2>2. QED
    BY <1>5, <2>1, StutterStep DEF HealthScan
<1>6. ASSUME NEW s \in Node, NEW n \in Node, HandleJoinRequest(s, n) \/ HandleStrayJoin(s, n)
      PROVE  Table!Next
  <2>1. up[s] /\ AddJoiner(s, n) /\ UNCHANGED up
    BY <1>6, WorkersRun DEF HandleJoinRequest, HandleStrayJoin
  <2>2. /\ Known(s, n)'
        /\ \A m, p \in Node : ~(m = s /\ p = n) => peers'[m][p] = peers[m][p]
    BY <1>0, <2>1 DEF AddJoiner, TypeOK, Known, RemoteWithGroups
  <2>3. QED
    BY <1>0, <2>1, <2>2, LearnStep
<1>7. ASSUME NEW n \in Node, NEW s \in Node, HandleJoinResponse(n, s) PROVE Table!Next
  <2>1. up[n] /\ UNCHANGED up
    BY <1>7, WorkersRun DEF HandleJoinResponse
  <2>2. \A m, p \in Node : m # n => peers'[m][p] = peers[m][p]
    BY <1>0, <1>7 DEF HandleJoinResponse, TypeOK
  <2>3. ASSUME NEW p \in Node PROVE Known(n, p)' \/ peers'[n][p] = peers[n][p]
    <3>1. peers'[n][p] = IF response[n][s][p] = NoPeer THEN peers[n][p] ELSE response[n][s][p]
      BY <1>0, <1>7 DEF HandleJoinResponse, Merge, TypeOK
    <3>2. response[n][s][p] = NoPeer \/ response[n][s][p].state = "healthy"
      BY DEF RInv, ResponsesAreFresh
    <3>3. QED
      BY <3>1, <3>2 DEF Known
  <2>4. QED
    BY <1>0, <2>1, <2>2, <2>3, LearnStep
<1>8. ASSUME NEW n \in Node, NEW m \in Node, HandleHeartbeat(n, m)
      PROVE  Table!Next \/ UNCHANGED Table!vars
  <2>1. up[n] /\ UNCHANGED up
    BY <1>8, WorkersRun DEF HandleHeartbeat
  <2>2. CASE UNCHANGED peers
    BY <1>4, <2>1, <2>2
  <2>3. CASE peers' = [peers EXCEPT ![n][m] = UpdateHeartbeat(peers[n][m], AssignedGroups[m])]
    <3>1. /\ Known(n, m)'
          /\ \A q, p \in Node : ~(q = n /\ p = m) => peers'[q][p] = peers[q][p]
      BY <1>0, <2>3 DEF TypeOK, Known, UpdateHeartbeat
    <3>2. QED
      BY <1>0, <2>1, <3>1, LearnStep
  <2>4. QED
    BY <1>8, <2>2, <2>3 DEF HandleHeartbeat
<1>9. ASSUME NEW n \in Node, NEW m \in Node, InsertDiscovered(n, m)
      PROVE  Table!Next \/ UNCHANGED Table!vars
  <2>1. up[n] /\ UNCHANGED up
    BY <1>9, WorkersRun DEF InsertDiscovered
  <2>2. CASE UNCHANGED peers
    BY <1>4, <2>1, <2>2
  <2>3. CASE peers' = [peers EXCEPT ![n][m] = Remote]
    <3>1. /\ Known(n, m)'
          /\ \A q, p \in Node : ~(q = n /\ p = m) => peers'[q][p] = peers[q][p]
      BY <1>0, <2>3 DEF TypeOK, Known, Remote
    <3>2. QED
      BY <1>0, <2>1, <3>1, LearnStep
  <2>4. QED
    BY <1>9, <2>2, <2>3 DEF InsertDiscovered
<1>10. ASSUME NEW n \in Node, NEW p \in Node, HealthEvict(n, p)
       PROVE  Table!Next \/ UNCHANGED Table!vars
  <2>1. up[n] /\ UNCHANGED up
    BY <1>10, WorkersRun DEF HealthEvict
  <2>2. /\ peers'[n][p] = NoPeer
        /\ \A m, q \in Node : ~(m = n /\ q = p) => peers'[m][q] = peers[m][q]
    BY <1>0, <1>10 DEF HealthEvict, TypeOK
  <2>3. /\ Heard(n, p)' = "absent"
        /\ \A m, q \in Node : ~(m = n /\ q = p) => Heard(m, q)' = Heard(m, q)
    BY <2>2 DEF Heard, Known, NoPeer
  <2>4. CASE Heard(n, p) = "absent"
    BY <2>1, <2>3, <2>4, StutterStep
  <2>5. CASE Heard(n, p) # "absent"
    <3>1. Views' = [Views EXCEPT ![n][p] = "absent"]
      BY <2>3 DEF Views
    <3>2. n \in Running /\ UNCHANGED Running
      BY <2>1 DEF Running
    <3>3. Table!Forget(n, p)
      BY <2>5, <3>1, <3>2 DEF Table!Forget, Running, Views
    <3>4. QED
      BY <3>3 DEF Table!Next
  <2>6. QED
    BY <2>4, <2>5
<1>11. ASSUME NEW n \in Node, SendHeartbeats(n) PROVE UNCHANGED <<up, peers>>
  BY <1>11 DEF SendHeartbeats
<1>12. ASSUME NEW n \in Node, NEW s \in Node, Dial(n, s) \/ SendJoinResponse(n, s)
       PROVE  UNCHANGED <<up, peers>>
  BY <1>12 DEF Dial, SendJoinResponse
<1>13. CASE UNCHANGED vars
  BY <1>4, <1>13 DEF vars
<1>14. QED
  BY <1>1, <1>2, <1>3, <1>4, <1>5, <1>6, <1>7, <1>8, <1>9, <1>10, <1>11, <1>12, <1>13
  DEF Next

\* The peer table keeps the promises of PeerView: with direct addresses every
\* behaviour of Membership is one of PeerView.
THEOREM PeerTableImplements ==
  ASSUME Direct
  PROVE  Spec => ImplementsPeerView
<1>1. Init => Table!Init
  BY DEF Init, Table!Init, Table!Empty, Heard, Known, NoPeers, NoPeer
<1>2. QED
  BY <1>1, RInvHolds, NextImplements, PTL DEF Spec, ImplementsPeerView, Table!Spec
=============================================================================
