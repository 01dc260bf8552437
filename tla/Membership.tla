----------------------------- MODULE Membership -----------------------------
(***************************************************************************)
(* The peer table of a cluster node (src/cluster/coordinator.rs and        *)
(* src/cluster/node.rs): how nodes join through their static peers, how    *)
(* heartbeats keep an entry alive or discover a new one, and how the       *)
(* health checker suspects, condemns and removes silent peers.             *)
(*                                                                         *)
(* Every tokio task of every node is a process here: one handler per       *)
(* connection, one joiner per static peer, one heartbeat sender and one    *)
(* health checker per node.  They interleave at each DashMap operation and *)
(* at each await.  Time is a global tick; an entry's age counts the ticks  *)
(* since its last_heartbeat.                                               *)
(***************************************************************************)
EXTENDS Integers, FiniteSets

CONSTANTS
  Node,            \* node names
  Group,           \* agent groups
  Seeds,           \* Seeds[n]: the nodes behind n's discovery.static_peers
  AssignedGroups,  \* AssignedGroups[n]: n's configured assigned_groups
  BindAddr,        \* BindAddr[n]: cluster.bind_addr, the address n announces
  Wildcard,        \* 0.0.0.0:port, which reaches whoever dials it
  Ephemeral,       \* the client port of an accepted connection: nobody listens
  HeartbeatEvery,  \* period of the heartbeat sender, in ticks  (5 s)
  CheckEvery,      \* period of the health checker              (10 s)
  SuspectAfter,    \* first threshold of check_health           (10 s)
  DownAfter,       \* second threshold of check_health          (30 s)
  MaxInFlight,     \* bound: heartbeats in flight between two nodes
  MaxCrashes,      \* bound: crashes in a behaviour
  Lossy,           \* connections may fail although the target is up
  Prompt,          \* every due step is taken before the clock advances
  StartWhen        \* a node starts at "any" time, once the others have "joined",
                   \* or once the others have "settled"

Address == Node \cup {Wildcard, Ephemeral}

ASSUME NodeAssumption == IsFiniteSet(Node)

ASSUME ConfigAssumption ==
  /\ Seeds \in [Node -> SUBSET Node]
  /\ \A n \in Node : n \notin Seeds[n]
  /\ AssignedGroups \in [Node -> SUBSET Group]
  /\ BindAddr \in [Node -> Node \cup {Wildcard}]
  /\ \A n \in Node : BindAddr[n] \in {n, Wildcard}

ASSUME AddressAssumption ==
  /\ Wildcard \notin Node
  /\ Ephemeral \notin Node
  /\ Wildcard # Ephemeral

ASSUME TimingAssumption ==
  /\ HeartbeatEvery \in Nat \ {0}
  /\ CheckEvery \in Nat \ {0}
  /\ SuspectAfter \in Nat
  /\ DownAfter \in Nat
  /\ SuspectAfter <= DownAfter
  /\ MaxInFlight \in Nat \ {0}
  /\ MaxCrashes \in Nat

ASSUME SettingAssumption ==
  /\ {Lossy, Prompt} \subseteq BOOLEAN
  /\ StartWhen \in {"any", "joined", "settled"}

\* Bound: an age beyond the last threshold and one period of the checker is
\* not told apart from the next one.
MaxAge == DownAfter + CheckEvery + 1

VARIABLES
  up,          \* up[n]: the process of n runs and listens
  peers,       \* peers[n][p]: n's entry for p
  joining,     \* joining[n][s]: progress of n's join through its static peer s
  response,    \* response[n][s]: the JoinResponse of s on its way to n
  stray,       \* <<n, s>>: a JoinRequest of a crashed n that s has yet to read
  beats,       \* beats[m][n]: heartbeats named m that n has yet to handle
  missed,      \* missed[n][m]: handlers of n past a failed look-up of m
  doomed,      \* doomed[n]: what is left of the checker's down_nodes
  sinceBeat,   \* ticks since the last round of the heartbeat sender
  sinceCheck,  \* ticks since the last round of the health checker
  crashes      \* number of crashes so far

vars == <<up, peers, joining, response, stray, beats, missed, doomed,
          sinceBeat, sinceCheck, crashes>>

-----------------------------------------------------------------------------
(* Entries: NodeInfo as one node keeps it of another.                      *)

NodeState == {"absent", "joining", "healthy", "suspect", "down"}

Entry == [state: NodeState, addr: Address, groups: SUBSET Group, age: 0..MaxAge]

NoPeer == [state |-> "absent", addr |-> Ephemeral, groups |-> {}, age |-> 0]

\* A peer found through a heartbeat: the address is the sender's client port.
Remote == [state |-> "joining", addr |-> Ephemeral, groups |-> {}, age |-> 0]

RemoteWithGroups(addr, groups) ==
  [state |-> "healthy", addr |-> addr, groups |-> groups, age |-> 0]

\* Mutants: the state, or the time, of the entry is not refreshed.
UpdateHeartbeat_KeepsState(e, groups) ==
  [state |-> e.state, addr |-> e.addr, groups |-> groups, age |-> 0]

UpdateHeartbeat_KeepsAge(e, groups) ==
  [state |-> "healthy", addr |-> e.addr, groups |-> groups, age |-> e.age]

UpdateHeartbeat(e, groups) ==
  [state |-> "healthy", addr |-> e.addr, groups |-> groups, age |-> 0]

\* Mutant: the two thresholds are tested in the other order.
CheckHealth_SuspectFirst(e) ==
  IF e.state = "absent" THEN e
  ELSE IF e.age > SuspectAfter THEN [e EXCEPT !.state = "suspect"]
  ELSE IF e.age > DownAfter THEN [e EXCEPT !.state = "down"]
  ELSE e

CheckHealth(e) ==
  IF e.state = "absent" THEN e
  ELSE IF e.age > DownAfter THEN [e EXCEPT !.state = "down"]
  ELSE IF e.age > SuspectAfter THEN [e EXCEPT !.state = "suspect"]
  ELSE e

Older(e) ==
  IF e.state = "absent" \/ e.age = MaxAge THEN e ELSE [e EXCEPT !.age = @ + 1]

Known(n, p) == peers[n][p].state # "absent"

\* The node that a connection from n to an address reaches, if any.
Target(n, addr) == IF addr = Wildcard THEN n ELSE addr

NoPeers == [p \in Node |-> NoPeer]

\* Mutants: the requester gets an item of its own; the responder puts its own
\* groups in every item.
Snapshot_WithRequester(s, n) ==
  [p \in Node |->
     IF Known(s, p)
       THEN RemoteWithGroups(peers[s][p].addr, peers[s][p].groups)
     ELSE IF p = s
       THEN RemoteWithGroups(BindAddr[s], AssignedGroups[s])
     ELSE NoPeer]

Snapshot_OwnGroups(s, n) ==
  [p \in Node |->
     IF Known(s, p) /\ p # n
       THEN RemoteWithGroups(peers[s][p].addr, AssignedGroups[s])
     ELSE IF p = s
       THEN RemoteWithGroups(BindAddr[s], AssignedGroups[s])
     ELSE NoPeer]

\* The nodes of a JoinResponse from s to n: s itself, then each of its peers
\* other than n (a later item of the same name wins).  An item carries no
\* state and no age: the joiner stores it as fresh and healthy.
Snapshot(s, n) ==
  [p \in Node |->
     IF Known(s, p) /\ p # n
       THEN RemoteWithGroups(peers[s][p].addr, peers[s][p].groups)
     ELSE IF p = s
       THEN RemoteWithGroups(BindAddr[s], AssignedGroups[s])
     ELSE NoPeer]

\* Mutant: the response replaces the table.
Merge_Replaces(old, items) ==
  [p \in Node |-> items[p]]

Merge(old, items) ==
  [p \in Node |-> IF items[p] = NoPeer THEN old[p] ELSE items[p]]

-----------------------------------------------------------------------------
JoinPhase == {"closed", "dialling", "requested", "added", "answered"}

\* No handshake is under way.
NobodyJoins ==
  /\ \A n, s \in Node : joining[n][s] = "closed"
  /\ stray = {}

\* Nothing is due: no handshake, handler, message or timer waits for a step.
Settled ==
  /\ NobodyJoins
  /\ \A n, s \in Node : beats[n][s] = 0 /\ missed[n][s] = 0
  /\ \A n \in Node : /\ doomed[n] = {}
                     /\ up[n] => /\ sinceBeat[n] < HeartbeatEvery
                                 /\ sinceCheck[n] < CheckEvery

Init ==
  /\ up = [n \in Node |-> FALSE]
  /\ peers = [n \in Node |-> NoPeers]
  /\ joining = [n \in Node |-> [s \in Node |-> "closed"]]
  /\ response = [n \in Node |-> [s \in Node |-> NoPeers]]
  /\ stray = {}
  /\ beats = [m \in Node |-> [n \in Node |-> 0]]
  /\ missed = [n \in Node |-> [m \in Node |-> 0]]
  /\ doomed = [n \in Node |-> {}]
  /\ sinceBeat = [n \in Node |-> 0]
  /\ sinceCheck = [n \in Node |-> 0]
  /\ crashes = 0

\* Mutant: the static peers are never dialled.
Start_Alone(n) ==
  /\ ~up[n]
  /\ StartWhen = "joined" => NobodyJoins
  /\ StartWhen = "settled" => Settled
  /\ up' = [up EXCEPT ![n] = TRUE]
  /\ sinceBeat' = [sinceBeat EXCEPT ![n] = HeartbeatEvery]
  /\ sinceCheck' = [sinceCheck EXCEPT ![n] = CheckEvery]
  /\ UNCHANGED <<peers, joining, response, stray, beats, missed, doomed, crashes>>

\* start: bind the listener, spawn one joiner per static peer, then the two
\* periodic tasks, whose first interval tick is due at once.
Start(n) ==
  /\ ~up[n]
  /\ StartWhen = "joined" => NobodyJoins
  /\ StartWhen = "settled" => Settled
  /\ up' = [up EXCEPT ![n] = TRUE]
  /\ joining' = [joining EXCEPT ![n] =
       [s \in Node |-> IF s \in Seeds[n] THEN "dialling" ELSE "closed"]]
  /\ sinceBeat' = [sinceBeat EXCEPT ![n] = HeartbeatEvery]
  /\ sinceCheck' = [sinceCheck EXCEPT ![n] = CheckEvery]
  /\ UNCHANGED <<peers, response, stray, beats, missed, doomed, crashes>>

\* connect_to_peer up to the request: tried once, a failure is only logged.
Dial(n, s) ==
  /\ joining[n][s] = "dialling"
  /\ \/ /\ up[s]
        /\ joining' = [joining EXCEPT ![n][s] = "requested"]
     \/ /\ ~up[s] \/ Lossy
        /\ joining' = [joining EXCEPT ![n][s] = "closed"]
  /\ UNCHANGED <<up, peers, response, stray, beats, missed, doomed,
                 sinceBeat, sinceCheck, crashes>>

\* The entry a JoinRequest from n installs, whatever was there before.
AddJoiner(s, n) ==
  peers' = [peers EXCEPT ![s][n] = RemoteWithGroups(BindAddr[n], AssignedGroups[n])]

HandleJoinRequest(s, n) ==
  /\ joining[n][s] = "requested"
  /\ AddJoiner(s, n)
  /\ joining' = [joining EXCEPT ![n][s] = "added"]
  /\ UNCHANGED <<up, response, stray, beats, missed, doomed,
                 sinceBeat, sinceCheck, crashes>>

\* The reply is built from the table as it is now; the write may fail.
SendJoinResponse(s, n) ==
  /\ joining[n][s] = "added"
  /\ \/ /\ joining' = [joining EXCEPT ![n][s] = "answered"]
        /\ response' = [response EXCEPT ![n][s] = Snapshot(s, n)]
     \/ /\ Lossy
        /\ joining' = [joining EXCEPT ![n][s] = "closed"]
        /\ UNCHANGED response
  /\ UNCHANGED <<up, peers, stray, beats, missed, doomed,
                 sinceBeat, sinceCheck, crashes>>

\* connect_to_peer from the response on: every item replaces n's own entry.
HandleJoinResponse(n, s) ==
  /\ joining[n][s] = "answered"
  /\ peers' = [peers EXCEPT ![n] = Merge(@, response[n][s])]
  /\ response' = [response EXCEPT ![n][s] = NoPeers]
  /\ joining' = [joining EXCEPT ![n][s] = "closed"]
  /\ UNCHANGED <<up, stray, beats, missed, doomed,
                 sinceBeat, sinceCheck, crashes>>

\* A request whose sender has crashed is still in the socket: it is handled
\* like any other, and the response is written to nobody.
HandleStrayJoin(s, n) ==
  /\ <<n, s>> \in stray
  /\ AddJoiner(s, n)
  /\ stray' = stray \ {<<n, s>>}
  /\ UNCHANGED <<up, joining, response, beats, missed, doomed,
                 sinceBeat, sinceCheck, crashes>>

-----------------------------------------------------------------------------
\* Heartbeats of n in flight to q once a round has been sent to `reached`.
InFlight(n, reached, q) ==
  beats[n][q] + Cardinality({p \in reached :
                               /\ Target(n, peers[n][p].addr) = q
                               /\ up[q]})

\* Mutant: the round goes to the peers known when the sender was spawned: none.
SendHeartbeats_ToNobody(n) ==
  /\ up[n]
  /\ sinceBeat[n] >= HeartbeatEvery
  /\ sinceBeat' = [sinceBeat EXCEPT ![n] = 0]
  /\ UNCHANGED <<up, peers, joining, response, stray, beats, missed, doomed,
                 sinceCheck, crashes>>

\* One round of the heartbeat sender.  A send that fails is skipped.  (An
\* interval that fell behind fires again at once; the extra rounds of such a
\* burst repeat the same message and collapse into one here.)
SendHeartbeats(n) ==
  /\ up[n]
  /\ sinceBeat[n] >= HeartbeatEvery
  /\ \E reached \in SUBSET {p \in Node : Known(n, p)} :
       /\ Lossy \/ \A p \in Node : Known(n, p) => p \in reached
       /\ \A q \in Node : InFlight(n, reached, q) <= MaxInFlight
       /\ beats' = [beats EXCEPT ![n] =
                      [q \in Node |-> InFlight(n, reached, q)]]
  /\ sinceBeat' = [sinceBeat EXCEPT ![n] = 0]
  /\ UNCHANGED <<up, peers, joining, response, stray, missed, doomed,
                 sinceCheck, crashes>>

\* The look-up of a Heartbeat's handler: a known peer is refreshed under its
\* shard lock; an unknown one is inserted later, after the lock is released.
HandleHeartbeat(n, m) ==
  /\ beats[m][n] > 0
  /\ beats' = [beats EXCEPT ![m][n] = @ - 1]
  /\ \/ /\ Known(n, m)
        /\ peers' = [peers EXCEPT ![n][m] = UpdateHeartbeat(@, AssignedGroups[m])]
        /\ UNCHANGED missed
     \/ /\ ~Known(n, m)
        /\ missed[n][m] < MaxInFlight
        /\ missed' = [missed EXCEPT ![n][m] = @ + 1]
        /\ UNCHANGED peers
  /\ UNCHANGED <<up, joining, response, stray, doomed,
                 sinceBeat, sinceCheck, crashes>>

\* Mutant: the handler inserts although its look-up never missed.
InsertDiscovered_Always(n, m) ==
  /\ up[n]
  /\ missed' = [missed EXCEPT ![n][m] = @ - 1]
  /\ peers' = [peers EXCEPT ![n][m] = Remote]
  /\ UNCHANGED <<up, joining, response, stray, beats, doomed,
                 sinceBeat, sinceCheck, crashes>>

\* The insert of that handler: unconditional, whatever has happened meanwhile,
\* unless the address of a connection that has broken cannot be read any more.
InsertDiscovered(n, m) ==
  /\ missed[n][m] > 0
  /\ missed' = [missed EXCEPT ![n][m] = @ - 1]
  /\ \/ peers' = [peers EXCEPT ![n][m] = Remote]
     \/ Lossy /\ UNCHANGED peers
  /\ UNCHANGED <<up, joining, response, stray, beats, doomed,
                 sinceBeat, sinceCheck, crashes>>

-----------------------------------------------------------------------------
\* Mutant: an entry is put on the list before its health is checked.
HealthScan_CollectsFirst(n) ==
  /\ up[n]
  /\ sinceCheck[n] >= CheckEvery
  /\ doomed[n] = {}
  /\ peers' = [peers EXCEPT ![n] = [p \in Node |-> CheckHealth(@[p])]]
  /\ doomed' = [doomed EXCEPT ![n] = {p \in Node : peers[n][p].state = "down"}]
  /\ sinceCheck' = [sinceCheck EXCEPT ![n] = 0]
  /\ UNCHANGED <<up, joining, response, stray, beats, missed, sinceBeat, crashes>>

\* The first loop of the health checker, which collects down_nodes ...
HealthScan(n) ==
  /\ up[n]
  /\ sinceCheck[n] >= CheckEvery
  /\ doomed[n] = {}
  /\ peers' = [peers EXCEPT ![n] = [p \in Node |-> CheckHealth(@[p])]]
  /\ doomed' = [doomed EXCEPT ![n] =
                  {p \in Node : CheckHealth(peers[n][p]).state = "down"}]
  /\ sinceCheck' = [sinceCheck EXCEPT ![n] = 0]
  /\ UNCHANGED <<up, joining, response, stray, beats, missed, sinceBeat, crashes>>

\* ... and one iteration of the second, which removes them one by one.
HealthEvict(n, p) ==
  /\ p \in doomed[n]
  /\ peers' = [peers EXCEPT ![n][p] = NoPeer]
  /\ doomed' = [doomed EXCEPT ![n] = @ \ {p}]
  /\ UNCHANGED <<up, joining, response, stray, beats, missed,
                 sinceBeat, sinceCheck, crashes>>

-----------------------------------------------------------------------------
Advance(timer, period) ==
  [n \in Node |-> IF up[n] /\ timer[n] < period THEN timer[n] + 1 ELSE timer[n]]

Tick ==
  /\ Prompt => Settled
  /\ peers' = [n \in Node |-> [p \in Node |-> Older(peers[n][p])]]
  /\ sinceBeat' = Advance(sinceBeat, HeartbeatEvery)
  /\ sinceCheck' = Advance(sinceCheck, CheckEvery)
  /\ UNCHANGED <<up, joining, response, stray, beats, missed, doomed, crashes>>

\* The process of n dies with its memory, its handlers and the connections to
\* it; what it wrote to other nodes stays readable there.
Crash(n) ==
  /\ up[n]
  /\ crashes < MaxCrashes
  /\ crashes' = crashes + 1
  /\ up' = [up EXCEPT ![n] = FALSE]
  /\ peers' = [peers EXCEPT ![n] = NoPeers]
  /\ joining' = [m \in Node |-> [s \in Node |->
       IF m = n \/ (s = n /\ joining[m][s] \in {"requested", "added"})
         THEN "closed" ELSE joining[m][s]]]
  /\ response' = [response EXCEPT ![n] = [s \in Node |-> NoPeers]]
  /\ stray' = {r \in stray : r[2] # n}
                \cup {<<n, s>> : s \in {q \in Node : joining[n][q] = "requested"}}
  /\ beats' = [m \in Node |-> [beats[m] EXCEPT ![n] = 0]]
  /\ missed' = [missed EXCEPT ![n] = [m \in Node |-> 0]]
  /\ doomed' = [doomed EXCEPT ![n] = {}]
  /\ sinceBeat' = [sinceBeat EXCEPT ![n] = 0]
  /\ sinceCheck' = [sinceCheck EXCEPT ![n] = 0]

Next ==
  \/ Tick
  \/ \E n \in Node : Start(n) \/ Crash(n) \/ SendHeartbeats(n) \/ HealthScan(n)
  \/ \E n, p \in Node :
       \/ Dial(n, p)
       \/ HandleJoinRequest(n, p)
       \/ SendJoinResponse(n, p)
       \/ HandleJoinResponse(n, p)
       \/ HandleStrayJoin(n, p)
       \/ HandleHeartbeat(n, p)
       \/ InsertDiscovered(n, p)
       \/ HealthEvict(n, p)

Spec == Init /\ [][Next]_vars

\* The runtime polls every ready task and the clock advances.  Nothing makes a
\* stopped node start, and nothing makes a node crash.
Fairness ==
  /\ WF_vars(Tick)
  /\ \A n \in Node : WF_vars(SendHeartbeats(n)) /\ WF_vars(HealthScan(n))
  /\ \A n, p \in Node :
       /\ WF_vars(Dial(n, p))
       /\ WF_vars(HandleJoinRequest(n, p))
       /\ WF_vars(SendJoinResponse(n, p))
       /\ WF_vars(HandleJoinResponse(n, p))
       /\ WF_vars(HandleStrayJoin(n, p))
       /\ WF_vars(HandleHeartbeat(n, p))
       /\ WF_vars(InsertDiscovered(n, p))
       /\ WF_vars(HealthEvict(n, p))

FairSpec == Spec /\ Fairness

-----------------------------------------------------------------------------
(* Properties.                                                             *)

\* Type correctness of the eleven variables.
TypeOK ==
  /\ up \in [Node -> BOOLEAN]
  /\ peers \in [Node -> [Node -> Entry]]
  /\ joining \in [Node -> [Node -> JoinPhase]]
  /\ response \in [Node -> [Node -> [Node -> Entry]]]
  /\ stray \subseteq Node \X Node
  /\ beats \in [Node -> [Node -> 0..MaxInFlight]]
  /\ missed \in [Node -> [Node -> 0..MaxInFlight]]
  /\ doomed \in [Node -> SUBSET Node]
  /\ sinceBeat \in [Node -> 0..HeartbeatEvery]
  /\ sinceCheck \in [Node -> 0..CheckEvery]
  /\ crashes \in 0..MaxCrashes

\* A node never keeps an entry for itself.  The code has no check for it: it
\* holds because the responder leaves the requester out of its snapshot
\* (coordinator.rs:538) and because no announced address leads back to the
\* sender of a heartbeat, which the wildcard bind address breaks.
NoSelfPeer == \A n \in Node : ~Known(n, n)

\* An entry with the address and the groups p announced, or with a dead client
\* port and p's groups or, until p's second heartbeat, none.
Describes(e, p) ==
  e.state # "absent" => \/ e.addr = BindAddr[p] /\ e.groups = AssignedGroups[p]
                        \/ e.addr = Ephemeral /\ e.groups \in {AssignedGroups[p], {}}

\* Whatever path an entry took (join request, heartbeat, snapshot, snapshot of
\* a snapshot), it never mixes two nodes up: address and groups are those of
\* its own node (coordinator.rs:517-526, 534-550, 582-584 and 697-712).
EntriesDescribeTheirNode ==
  \A n, p \in Node : /\ Describes(peers[n][p], p)
                     /\ \A s \in Node : Describes(response[n][s][p], p)

\* A verdict of the health checker is never fresher than the silence behind
\* it: an entry that reads suspect or down, and an entry on the list of those
\* to remove that has not been refreshed since, is older than the threshold
\* (node.rs:111-119 against the handlers that rewrite the entry concurrently).
VerdictsAreEarned ==
  \A n, p \in Node :
    /\ peers[n][p].state = "suspect" => peers[n][p].age > SuspectAfter
    /\ peers[n][p].state = "down" => /\ peers[n][p].age > DownAfter
                                     /\ p \in doomed[n]

\* What n's table holds for p, in the terms of PeerView.
Heard(n, p) ==
  LET e == peers[n][p] IN
  IF ~Known(n, p) THEN "absent"
  ELSE IF e.addr = BindAddr[p] /\ e.groups = AssignedGroups[p] THEN "full"
  ELSE IF e.addr = Ephemeral /\ e.groups = AssignedGroups[p] THEN "heard"
  ELSE IF e.addr = Ephemeral /\ e.groups = {} THEN "bare"
  ELSE "wrong"

Table ==
  INSTANCE PeerView WITH running <- {n \in Node : up[n]},
                         view <- [n \in Node |-> [p \in Node |-> Heard(n, p)]]

\* With all its messages, tasks and timers the peer table behaves as PeerView
\* promises its readers: only a running node's table changes, one table at a
\* time, entries go singly except when the node stops, a merge of second-hand
\* knowledge removes nothing, and no table names its own node
\* (coordinator.rs:209-247, 504-587 and 694-717).
ImplementsPeerView == Table!Spec

\* Strengthening for the above: nothing of a node outlives its process, and no
\* message waits for a node that does not run.
StoppedIsIdle ==
  \A n \in Node : ~up[n] =>
    /\ peers[n] = NoPeers
    /\ doomed[n] = {}
    /\ \A m \in Node : /\ joining[n][m] = "closed"
                       /\ joining[m][n] \notin {"requested", "added"}
                       /\ <<m, n>> \notin stray
                       /\ beats[m][n] = 0
                       /\ missed[n][m] = 0

\* Strengthenings that make the invariants above inductive.
ResponsesAreFresh ==
  \A n, s, p \in Node :
    response[n][s][p] = NoPeer \/ response[n][s][p].state = "healthy"

NoSelfTraffic ==
  \A n \in Node : /\ joining[n][n] = "closed"
                  /\ <<n, n>> \notin stray
                  /\ beats[n][n] = 0
                  /\ missed[n][n] = 0
                  /\ \A s \in Node : response[n][s][n] = NoPeer

\* With timers on time, a silent peer is gone at the latest one period of the
\* checker after the down threshold (30 s + 10 s).
SilenceIsBounded ==
  \A n, p \in Node : Known(n, p) => peers[n][p].age <= DownAfter + CheckEvery

\* Two nodes that hold each other at their announced address.
Mutual(n, p) ==
  /\ n # p /\ up[n] /\ up[p]
  /\ Known(n, p) /\ peers[n][p].addr = p
  /\ Known(p, n) /\ peers[p][n].addr = n

\* No false suspicion: with timers on time and no lost connection, two live
\* nodes that can reach each other do not suspect each other.  (While one of
\* them restarts, a snapshot may show it the other before the other has read
\* its join request; hence only once everything due is done.)
MutualPeersAreTrusted ==
  Settled => \A n, p \in Node :
               Mutual(n, p) => peers[n][p].state \notin {"suspect", "down"}

\* node.rs:15 calls Down "confirmed down": no live node is ever marked so.
DownIsConfirmed ==
  \A n, p \in Node : peers[n][p].state = "down" => ~up[p]

\* A node that stays down is eventually known to nobody (coordinator.rs:208).
CrashedIsForgotten ==
  \A p \in Node : (<>[](~up[p])) => <>[](\A n \in Node : ~Known(n, p))

\* Everybody knows everybody else.
Mesh == \A n, p \in Node : n # p => Known(n, p)

\* If all nodes come up and stay up, each eventually knows every other
\* (coordinator.rs:158-170 and 577-586).  After a crash this is not certain: a
\* node whose old entry was replaced by a discovered one (see DownIsConfirmed)
\* may stay unknown to a peer for good.
MeshForms ==
  (/\ <>[](\A n \in Node : up[n])
   /\ [](crashes = 0))
    => <>Mesh

\* ... and for good, unless a heartbeat overtakes the join of its sender: then
\* the discovered entry, with the client port for an address, may replace the
\* one the join installs, and nothing is ever sent back (coordinator.rs:582).
MeshLasts ==
  (/\ <>[](\A n \in Node : up[n])
   /\ [](\A n, p \in Node : missed[n][p] = 0))
    => <>[]Mesh
=============================================================================
