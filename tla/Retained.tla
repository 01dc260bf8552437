------------------------------ MODULE Retained ------------------------------
(***************************************************************************)
(* The retained-message store of each node and its replication             *)
(* (src/cluster/retained.rs and the RetainedSync paths of                  *)
(* src/cluster/coordinator.rs).  A publication through the API is stored   *)
(* with the second it arrived in and sent once to every known peer; the    *)
(* receiver stamps it with its own clock and keeps it only if that stamp   *)
(* is strictly later than the one it holds.  A node only ever compares     *)
(* stamps of its own clock, so one clock stands for all of them.           *)
(*                                                                         *)
(* The peer table is the one PeerView promises, which module Membership    *)
(* implements: nodes start and stop, and entries come, change and go, at   *)
(* any moment between the steps of a publication.  A publication is known  *)
(* by its number, which stands for its payload, so that `published` tells  *)
(* where and when any copy of it originated.                               *)
(***************************************************************************)
EXTENDS Integers

CONSTANTS
  Node, Topic,
  Nothing,     \* no message is retained for the topic
  MaxPublish,  \* bound: publications in a behaviour
  MaxClock,    \* bound: seconds in a behaviour
  MaxFaults,   \* bound: nodes stopped and entries lost in a behaviour
  Lossy,       \* a connection to a peer may fail
  Calm         \* publications come one at a time, each in a second of its own

Number == 1..MaxPublish
Publication == [node: Node, topic: Topic, at: 0..MaxClock]
RetainedMessage == [payload: Number, timestamp: 0..MaxClock, source_node: Node]
RetainedSync == [to: Node, topic: Topic, payload: Number, source_node: Node]

ASSUME RetainedAssumption ==
  /\ MaxPublish \in Nat /\ MaxClock \in Nat /\ MaxFaults \in Nat
  /\ {Lossy, Calm} \subseteq BOOLEAN
  /\ Nothing \notin RetainedMessage
  /\ Nothing \notin Publication

VARIABLES
  clock,      \* the current second
  count,      \* number of publications so far
  published,  \* published[i]: what publication i is
  store,      \* store[n][t]: what n retains for t
  syncing,    \* publications whose sender is still going through its peers
  sent,       \* sent[i]: the peers that sender has dealt with
  due,        \* due[i]: the peers it is still sure to come to
  net,        \* RetainedSync messages on their way
  running,    \* the nodes whose process runs
  view,       \* view[n][p]: n's entry for p
  since,      \* history: since[n]: number of publications when n last stopped
  faults      \* number of faults so far

table == <<running, view>>
vars == <<clock, count, published, store, syncing, sent, due, net, table, since, faults>>

Peers == INSTANCE PeerView

Known(n) == {p \in Node : view[n][p] # "absent"}

Retains(n, t) == store[n][t] # Nothing

\* Every publication has reached whom it will reach.
Quiet == syncing = {} /\ net = {}

\* Every publication, and every copy of one, is from an earlier second.
Spaced ==
  /\ \A i \in 1..count : published[i].at < clock
  /\ \A n \in Node, t \in Topic : Retains(n, t) => store[n][t].timestamp < clock

Init ==
  /\ clock = 0
  /\ count = 0
  /\ published = [i \in Number |-> Nothing]
  /\ store = [n \in Node |-> [t \in Topic |-> Nothing]]
  /\ syncing = {}
  /\ sent = [i \in Number |-> {}]
  /\ due = [i \in Number |-> {}]
  /\ net = {}
  /\ running = Node
  /\ view = [n \in Node |-> [p \in Node |-> IF p = n THEN "absent" ELSE "full"]]
  /\ since = [n \in Node |-> 0]
  /\ faults = 0

\* Mutant: the second is rounded up.
StoreRetained_RoundsUp(n, t) ==
  /\ n \in running /\ count < MaxPublish
  /\ Calm => Quiet /\ Spaced
  /\ count' = count + 1
  /\ published' = [published EXCEPT ![count + 1] = [node |-> n, topic |-> t, at |-> clock]]
  /\ store' = [store EXCEPT ![n][t] =
                 [payload |-> count + 1, timestamp |-> clock + 1, source_node |-> n]]
  /\ syncing' = syncing \cup {count + 1}
  /\ due' = [due EXCEPT ![count + 1] = Known(n)]
  /\ UNCHANGED <<clock, sent, net, table, since, faults>>

\* RetainedStore::store, at the head of store_retained: unconditional.
StoreRetained(n, t) ==
  /\ n \in running /\ count < MaxPublish
  /\ Calm => Quiet /\ Spaced
  /\ count' = count + 1
  /\ published' = [published EXCEPT ![count + 1] = [node |-> n, topic |-> t, at |-> clock]]
  /\ store' = [store EXCEPT ![n][t] =
                 [payload |-> count + 1, timestamp |-> clock, source_node |-> n]]
  /\ syncing' = syncing \cup {count + 1}
  /\ due' = [due EXCEPT ![count + 1] = Known(n)]
  /\ UNCHANGED <<clock, sent, net, table, since, faults>>

\* The loop of store_retained, one peer at a time; a failed send is skipped.
\* An entry that is not full leads to a client port where nobody listens.
SendSync(i, p) ==
  /\ i \in syncing
  /\ p \in Known(published[i].node) \ sent[i]
  /\ sent' = [sent EXCEPT ![i] = @ \cup {p}]
  /\ due' = [due EXCEPT ![i] = @ \ {p}]
  /\ \/ /\ p \in running /\ view[published[i].node][p] = "full"
        /\ net' = net \cup {[to |-> p, topic |-> published[i].topic,
                             payload |-> i, source_node |-> published[i].node]}
     \/ /\ Lossy \/ p \notin running \/ view[published[i].node][p] # "full"
        /\ UNCHANGED net
  /\ UNCHANGED <<clock, count, published, store, syncing, table, since, faults>>

\* Mutant: the loop may end before its last peer.
FinishSync_Early(i) ==
  /\ i \in syncing
  /\ syncing' = syncing \ {i}
  /\ UNCHANGED <<clock, count, published, store, sent, due, net, table, since, faults>>

\* The loop comes to every peer it found when it began and that has not been
\* removed since; a peer that the table learns of meanwhile may be in a shard
\* that it has passed already.
FinishSync(i) ==
  /\ i \in syncing
  /\ due[i] = {}
  /\ syncing' = syncing \ {i}
  /\ UNCHANGED <<clock, count, published, store, sent, due, net, table, since, faults>>

\* Mutants: a message of the same second replaces the one retained; the
\* receiver names itself as the source, as store does.
HandleRetainedSync_SameSecond(m) ==
  /\ m \in net
  /\ net' = net \ {m}
  /\ IF Retains(m.to, m.topic) /\ store[m.to][m.topic].timestamp > clock
       THEN UNCHANGED store
       ELSE store' = [store EXCEPT ![m.to][m.topic] =
                        [payload |-> m.payload, timestamp |-> clock,
                         source_node |-> m.source_node]]
  /\ UNCHANGED <<clock, count, published, syncing, sent, due, table, since, faults>>

HandleRetainedSync_AsOwn(m) ==
  /\ m \in net
  /\ net' = net \ {m}
  /\ IF Retains(m.to, m.topic) /\ store[m.to][m.topic].timestamp >= clock
       THEN UNCHANGED store
       ELSE store' = [store EXCEPT ![m.to][m.topic] =
                        [payload |-> m.payload, timestamp |-> clock, source_node |-> m.to]]
  /\ UNCHANGED <<clock, count, published, syncing, sent, due, table, since, faults>>

\* The handler of a RetainedSync: stamp it now, then store_synced, which
\* stores it if newer or if nothing is there.
HandleRetainedSync(m) ==
  /\ m \in net
  /\ net' = net \ {m}
  /\ IF Retains(m.to, m.topic) /\ store[m.to][m.topic].timestamp >= clock
       THEN UNCHANGED store
       ELSE store' = [store EXCEPT ![m.to][m.topic] =
                        [payload |-> m.payload, timestamp |-> clock,
                         source_node |-> m.source_node]]
  /\ UNCHANGED <<clock, count, published, syncing, sent, due, table, since, faults>>

Fault ==
  /\ faults < MaxFaults
  /\ faults' = faults + 1

\* The table learns of a peer (a join brings no retained data).  A full entry
\* gives way to one that leads nowhere only by a fault.
Learn(n, p, entry) ==
  /\ view[n][p] # entry
  /\ Peers!Learn(n, [view[n] EXCEPT ![p] = entry])
  /\ IF view[n][p] = "full" THEN Fault ELSE UNCHANGED faults
  /\ UNCHANGED <<clock, count, published, store, syncing, sent, due, net, since>>

\* The health checker gives a peer up, in the middle of a loop if it likes.
Forget(n, p) ==
  /\ Peers!Forget(n, p)
  /\ Fault
  /\ due' = [i \in Number |-> IF i \in syncing /\ published[i].node = n
                              THEN due[i] \ {p} ELSE due[i]]
  /\ UNCHANGED <<clock, count, published, store, syncing, sent, net, since>>

\* A node stops with its store, the handlers it was running and the messages
\* it has not read.
Crash(n) ==
  /\ Peers!Stop(n)
  /\ Fault
  /\ store' = [store EXCEPT ![n] = [t \in Topic |-> Nothing]]
  /\ syncing' = {i \in syncing : published[i].node # n}
  /\ net' = {m \in net : m.to # n}
  /\ since' = [since EXCEPT ![n] = count]
  /\ UNCHANGED <<clock, count, published, sent, due>>

\* It starts again with an empty store.
Start(n) ==
  /\ Peers!Start(n)
  /\ UNCHANGED <<clock, count, published, store, syncing, sent, due, net, since, faults>>

Tick ==
  /\ clock < MaxClock
  /\ clock' = clock + 1
  /\ UNCHANGED <<count, published, store, syncing, sent, due, net, table, since, faults>>

Next ==
  \/ Tick
  \/ \E n \in Node, t \in Topic : StoreRetained(n, t)
  \/ \E i \in Number, p \in Node : SendSync(i, p)
  \/ \E i \in Number : FinishSync(i)
  \/ \E m \in net : HandleRetainedSync(m)
  \/ \E n, p \in Node : Forget(n, p) \/ \E entry \in {"bare", "heard", "full"} : Learn(n, p, entry)
  \/ \E n \in Node : Crash(n) \/ Start(n)

Spec == Init /\ [][Next]_vars

\* The runtime finishes what it started: senders and handlers run.
Fairness ==
  /\ \A i \in Number : WF_vars(FinishSync(i)) /\ \A p \in Node : WF_vars(SendSync(i, p))
  /\ WF_vars(\E m \in net : HandleRetainedSync(m))

FairSpec == Spec /\ Fairness

-----------------------------------------------------------------------------
(* Properties.                                                             *)

\* Type correctness of the twelve variables.
TypeOK ==
  /\ clock \in 0..MaxClock
  /\ count \in 0..MaxPublish
  /\ published \in [Number -> Publication \cup {Nothing}]
  /\ store \in [Node -> [Topic -> RetainedMessage \cup {Nothing}]]
  /\ syncing \subseteq Number
  /\ sent \in [Number -> SUBSET Node]
  /\ due \in [Number -> SUBSET Node]
  /\ net \subseteq RetainedSync
  /\ running \subseteq Node
  /\ view \in [Node -> [Node -> Peers!Knowledge]]
  /\ since \in [Node -> 0..MaxPublish]
  /\ faults \in 0..MaxFaults

\* Publication i, of that topic and originally published on that node.
IsCopyOf(i, t, source) ==
  /\ i <= count
  /\ published[i] # Nothing
  /\ published[i].topic = t
  /\ published[i].node = source

\* A copy is what its publication says: whatever the path it took, it sits
\* under the right topic, names the node it was originally published on
\* (retained.rs:20) and is stamped no earlier than it was published.
CopiesAreTruthful ==
  /\ \A n \in Node, t \in Topic :
       Retains(n, t) => /\ IsCopyOf(store[n][t].payload, t, store[n][t].source_node)
                        /\ published[store[n][t].payload].at <= store[n][t].timestamp
  /\ \A m \in net : IsCopyOf(m.payload, m.topic, m.source_node)

\* Publication i is the last one for t that was made on n.
LastOwn(n, t, i) ==
  /\ i <= count /\ published[i].node = n /\ published[i].topic = t
  /\ \A j \in i + 1 .. count : published[j].node # n \/ published[j].topic # t

\* A node's own publication outlives the second it was made in: whatever
\* arrives from other nodes within that second, before or after, and whoever
\* else stops, only a later second replaces it until the node itself stops
\* (store overwrites unconditionally, store_synced needs a strictly later
\* second).
OwnWritesHold ==
  \A n \in Node, t \in Topic, i \in Number :
    (i > since[n] /\ LastOwn(n, t, i)) =>
      \/ Retains(n, t) /\ store[n][t].payload = i
      \/ Retains(n, t) /\ store[n][t].timestamp > published[i].at

\* When nothing is on its way, all nodes retain the same payload for a topic
\* (retained.rs:3 "provides cluster-wide sync").
Converged ==
  Quiet => \A n, m \in Node, t \in Topic :
             /\ Retains(n, t) <=> Retains(m, t)
             /\ Retains(n, t) => store[n][t].payload = store[m][t].payload

\* A later publication has taken the place of publication i.
Superseded(i) ==
  \E j \in i + 1 .. count : published[j].topic = published[i].topic

SpreadTo(n, i) ==
  /\ i <= count
  /\ \/ /\ Retains(n, published[i].topic)
        /\ store[n][published[i].topic].payload = i
     \/ Superseded(i)

\* In a cluster whose members know each other and lose nothing, publications
\* that come one at a time in seconds of their own all reach every node
\* (coordinator.rs:335-351 and 606-626).
EveryPublicationSpreads ==
  \A n \in Node, i \in Number : (i <= count) ~> SpreadTo(n, i)
=============================================================================
