# Formal models of OtterWatch MQTT's cluster

TLA+ models of the cluster layer of OtterWatch MQTT and of a node's process, the TLC configurations
that check them on small clusters, and TLAPS proofs of their main invariants
for clusters of any size. Line numbers refer to `src/` of this repository
(`coordinator.rs` is `src/cluster/coordinator.rs`, and so on).

## 1. The system and its parts

A node is one process: an MQTT broker (rumqttd, a library), a management API, a
metrics poller and, if enabled, a cluster coordinator. Nodes talk to each other
only through the coordinator: every message is one TCP connection, one
length-prefixed JSON frame, sent once, without an answer (except JoinRequest).
Nothing is persisted.

| Part | State | Operations | Talks to | What is hard |
|---|---|---|---|---|
| **Membership and health** (`coordinator.rs`, `node.rs`) | `peers: DashMap<String, NodeInfo>`: address, groups, state, `last_heartbeat` | `start`, `connect_to_static_peers`, `connect_to_peer`, the handlers of JoinRequest and Heartbeat, the 5 s heartbeat sender, the 10 s health checker | other nodes by JoinRequest, JoinResponse, Heartbeat | one task per connection, per static peer and per timer, sharing a map with per-shard locks only; look-up and insert are two steps; second-hand snapshots; a static peer is dialled once; crashes and restarts; thresholds against periods |
| **Locks of the peer table** (`coordinator.rs`) | the shards of `peers`, tokio's worker threads | every iteration over `peers`, with a send or without, `get_mut`, `insert`, `contains_key`, `iter_mut`, `remove` | all tasks of the coordinator | a walk keeps a shard lock while it awaits a connection, and gives up its thread; whoever waits for a lock keeps its thread; an iteration keeps one shard while it waits for the next |
| **Group assignments** (`coordinator.rs`) | `group_assignments: RwLock<HashMap>` | `reassign_group`, `unassign_group`, the two handlers, the sweep after a removal, `find_node_for_group`, `get_group_assignments` | the API calls it; peers by GroupAssigned, GroupUnassigned; reads `peers` | announcements are unordered, unconditional and sent once; check, write and notification are separate steps |
| **Retained store** (`retained.rs`, `coordinator.rs`) | `messages: DashMap<topic, RetainedMessage>` | `store`, `store_synced`, `get_matching` / `topic_matches`, `store_retained`, the handler of RetainedSync | the API calls it; peers by RetainedSync | last writer wins on whole seconds; the receiver stamps on arrival; no retry and no catch-up |
| **Cluster protocol** (`protocol.rs`) | none | message types, framing | all of the above | - |
| **Management API** (`api/mod.rs`) | shared handles | rebalance, retained store, read-only listings | coordinator, metrics | requests run concurrently |
| **Broker wrapper** (`broker/core.rs`) | handle, shutdown channel | building rumqttd's configuration, start, stop, wait | rumqttd on a thread of its own | a failed broker thread is not noticed by `wait`; width of the timeout arithmetic |
| **Metrics** (`metrics/mod.rs`) | gauges | one poll loop | rumqttd's meters | gauges that keep an old value |
| **Configuration** (`config/*.rs`) | immutable data | load, override, default, validate | all | which source counts, and under which names; settings nobody validates |
| **API keys** (`auth/api_key.rs`) | a set of hashes | validate | built with the broker; no handler asks it yet | - |
| **Process** (`main.rs`) | the command line | start-up order, signals | all | partial start-up; a start that ends in a panic |

What makes each part correct:

- membership: a peer's entry describes that peer; a verdict (suspect, down) is
  backed by silence; silence leads to a verdict in bounded time; live peers that
  reach each other are not condemned; a dead node is forgotten; live nodes find
  each other;
- assignments: only what was asked for is ever assigned; one call, and calls
  made one after the other, leave all nodes with the same tables and listings;
- retained store: copies are what was published; a node's own publication is
  not lost to an older one; one publication at a time reaches all members;
- topic matching: the loop returns what the wildcard rules say;
- locks: no message, check or walk is held up for ever, as far as the code allows;
- start: a node runs with what the command line, file and environment say, or not at
  all; its timeouts leave clients the time they are due;
- process: a request to stop ends it, and what the metrics show is what the broker
  reported.

`PROJECT.json` lists under `hazards` every place where these can go wrong in a
way that is hard to test, with the properties aimed at it.

## 2. The modules

| Module | Models | MC module | Proofs |
|---|---|---|---|
| `PeerView` | what the peer table promises its readers, abstractly | - | - |
| `Membership` | peer table, join, heartbeats, health checker, crashes; implements `PeerView` | `MCMembership` | `MembershipProofs`, `MembershipRefinement` |
| `PeerMapLocks` | shard locks, walks, blocked worker threads | `MCPeerMapLocks` | `PeerMapLocksProofs` |
| `Retained` | retained stores and their replication, on a `PeerView` | `MCRetained` | `RetainedProofs` |
| `GroupAssignment` | dynamic assignments and look-ups, on a `PeerView` | `MCGroupAssignment` | `GroupAssignmentProofs` |
| `TopicMatch` | the loop of `topic_matches` | `MCTopicMatch` | `TopicMatchProofs` |
| `Startup` | command line, configuration, addresses, keys, timeouts | `MCStartup` | `StartupProofs` |
| `NodeProcess` | one process: services, broker thread, metrics, the wait and the end | - | `NodeProcessProofs` |

Each module carries, beside its definitions, a few named mutants
(`UpdateHeartbeat_KeepsAge`, `FinishSync_Early`, ...): the same operator with a
plausible bug. Each property is violated in its run when the mutant takes the
operator's place, so no property holds by construction.

The modules meet in two places. `PeerView` is the contract between `Membership`,
which is shown to implement it, and its two readers, `GroupAssignment` and `Retained`,
which take its actions as the environment of a call or a publication: whatever is
checked and proved there holds on top of any peer table that keeps the contract.
`Startup` ends where `NodeProcess` begins: the
`LoadConfig` and `StartBroker` of the latter are the former with everything but
success and failure left out.

### PeerView

`running` is the set of nodes that are up; `view[n][p]` is what n's table holds for p:
nothing ("absent"), an entry made by a heartbeat, with the client port of a connection for
an address and no groups ("bare"), the same after another heartbeat, with p's groups
("heard"; `update_heartbeat` leaves the address alone), or one with p's groups and the
address that p announces ("full"). Only a full entry leads to p. A node starts with an empty table (`Start`)
and loses it when it stops (`Stop`); a running node gains and overwrites entries,
never one of its own (`Learn`: a join adds several at once), and loses them one at a
time (`Forget`). Which messages and timers make it so is left to `Membership`, whose
`Heard` maps an entry to one of the four, or to a fifth value, "wrong", that no state may
have.

### Membership

`peers[n][p]` is n's `NodeInfo` for p; `age` counts the ticks since
`last_heartbeat` (`MaxAge` caps it above every threshold). `joining` is the
progress of each `connect_to_peer`, `response` the JoinResponse on its way,
`beats[m][n]` the heartbeats of m that n has not read, `missed[n][m]` the
handlers of n between the failed look-up (577) and the insert (584), `doomed` the
rest of the checker's `down_nodes`, `sinceBeat` and `sinceCheck` the two
intervals.

| Action | Code |
|---|---|
| `Start` | `start`: listener, one joiner per static peer, both timers due at once |
| `Dial`, `HandleJoinRequest`, `SendJoinResponse`, `HandleJoinResponse` | the join handshake: connect and request, insert the joiner, snapshot and reply, merge the reply |
| `HandleStrayJoin` | a request read after its sender died |
| `SendHeartbeats` | one round of the sender |
| `HandleHeartbeat`, `InsertDiscovered` | look-up and refresh; the later insert of an unknown sender under its client port (or none, if the connection is gone) |
| `HealthScan`, `HealthEvict` | the checker's first loop; one removal of its second |
| `Crash`, `Tick` | environment: a process dies; time passes |

Addresses are abstracted to whom they reach: the node itself (a direct bind
address), `Wildcard` (0.0.0.0, which reaches whoever dials it) or `Ephemeral`
(the client port of a connection, where nobody listens).

What is one step here although the code takes several: a round of the heartbeat
sender, the checker's first loop, building a snapshot and merging one. The
shards of the table are locked one at a time in these loops, so another task
could slip between two entries; no property relates two entries of one node's
table, so the coarser step loses no violation of them. The locks that these loops hold
are the subject of `PeerMapLocks`. The shutdown channel is left out because nobody
signals it.

### PeerMapLocks

DashMap locks a shard, not an entry, and its locks block the thread. Its iterators lock one
shard after the other and drop the guard of the last one only when they have the next
(`GoOn`). The tasks are of six kinds:

| Tasks | Code | What they do with the locks |
|---|---|---|
| `Sender`, `Caller` | the heartbeat sender; calls and publications that tell all peers (194-198, 346-350, 423-431) | iterate as readers and await a send at every entry (`EndSend`, `NextPeer`): the task is suspended, its thread is free, the shard is not |
| `Lister` | listings and the snapshot of a join (294, 537) | iterate as readers without a send |
| `Handler` | the handlers that change one entry (526, 577, 584) | want one shard, for writing |
| `Looker` | look-ups of one entry (385) | want one shard, for reading |
| `Checker` | the health checker | its first loop iterates as a writer (`ScanShard`; 223), its second removes the peers it found, one write lock each, and awaits the table of assignments in between (`RemovePeer`; 231-238) |

`holds[t]` is the shard whose guard a task has, `wants[t]` the shard its thread is blocked
on. A task that wants a shard occupies a thread until it has it (`Locking`); a task that is
ready begins or goes on only if one of the `Workers` threads is free (`WorkerFree`).
`EndSend` is the environment: a connection succeeds, is refused, or times out in the
operating system. Of the library it is assumed that a shard can be read whenever nobody
has it for writing: readers do not queue up behind a writer that waits.

`Stuck` names the state in which every thread is blocked on a shard that somebody has. The
instance reaches it; the properties say that it is final (`StuckForEver`), that it takes
a walker that is suspended with a guard (`OnlySendsDeadlock`: iterations that hold one
shard and wait for the next never block each other by themselves, because all go through
the shards in one order and the removals come after the iteration), and that it is the
only way in which a handler, a look-up, a listing, a check or a walk can fail to end
(`HandlersEnd`, `WalksEnd`).

### Retained

One clock stands for all: a node only compares stamps of its own. A publication
is its number; `published[i]` is where, under which topic and when it was made,
and is never read by an action except to find the sender. `StoreRetained` is the
local `store` at the head of `store_retained`, `SendSync` one iteration of its
loop (it may fail if `Lossy`), `FinishSync` its end (every peer in `due`, those that were
there when the loop began and still are, has been dealt with; one that came later may be
in a shard that the iterator has passed), `HandleRetainedSync` the
receiver with `store_synced`. The peer table is `Peers == INSTANCE PeerView`: `Learn`,
`Forget`, `Crash` and `Start` are its actions, between two steps of a publication if they
like, with what they mean for the store, the running loops and the unread messages of the
node. An entry that is not full leads to a client port where nobody listens, so a send to it
fails.
`Fault` counts the actions that lose something, up to `MaxFaults`; `since[n]` remembers how
many publications there were when `n` last stopped, for `OwnWritesHold` to leave older
ones out.

### GroupAssignment

A call is a record with its progress: `CheckTarget` (376-397), `WriteAssignment`
(399-416), `Tell` per peer and `FinishTelling`, with a `due` set as in `Retained`; `unassign_group` is
`RemoveAssignment` with the same tail. `HandleGroupAssigned` and
`HandleGroupUnassigned` are the receivers. The checker's removal is `RemovePeer`
and, after the wait for the lock, `DropAssignments`. The peer table is
`Peers == INSTANCE PeerView`: `Learn`, `RemovePeer`, `Crash` and `Start` are its actions,
with what they mean for the tables, calls and announcements of the node. `Fault`
counts those that lose something, up to `MaxFaults`.
`FindNodeForGroup` and `GetGroupAssignment` are the two look-ups, as sets where
the answer depends on the order of a hash table. `unassign_group` and
`find_node_for_group` have no caller in the program yet; they are modelled as the
coordinator's public interface.

### TopicMatch

The loop with its two indices, one action per branch, and `Selects`, the relation that the
comments describe, stated without a loop. The code and the comments part where the topic
ends at a `#` of the pattern (`HashIsLeft`): the property leaves that case to the code in
one direction, and demands `Selects` in all others. Levels are opaque; `Plus` and `Hash` are two
of them.

### Startup

`Args::parse` word by word (`TakeFile`, `TakeOther`, `EndParse`), `load_config` in two
steps (`ReadSources`: the file and the environment as they are found; `Settle`: the
defaults of the schema and `validate_config`), the addresses that `main` and
`ClusterCoordinator::new` parse with `expect` (`NewCoordinator`), and what
`OtterWatchBroker::new` and `start` make of the settings (`StartBroker`): the validator of
API keys and the two timeouts. A source maps each setting to an optional value, and
a section is a setting too, since the defaults depend on whether it is there: the
`bind_addr` of an absent `[cluster]` section is the empty string of a derived `Default`,
and not the `0.0.0.0:7000` of a section that leaves it out. The environment is a source for
each of two prefixes: `Documented`, `OTTERWATCH_MQTT_`, and `Separated`,
`OTTERWATCH_MQTT__`; `FromEnvironment` is the rule by which the config crate chooses, from
the prefix and the separator that `load_config` gives it.

Of a setting only what decides something is kept: an address is "good" or does not
parse; a limit is a number. Widths are kept: `keepalive_secs` is a u16 and its product
cannot overflow a u32; a ping delay is a u64 of which `as u32` keeps two 16-bit
words, whose product with 1500 is computed word by word, since it exceeds what TLC's
integers hold. `BridgeArithmetic` proves those two words to be the code's
expression modulo 2^32. `Builds` says whether a build panics on overflow (debug) or
wraps (release). `require_auth` and `api_keys` decide whether a start gets past validation;
`ValidateOptional` is what the validator answers.

### NodeProcess

`main` walks through its statements (`LoadConfig`, `StartBroker`, `SpawnUpdater`,
one `Spawn` per service, the `select!`, `Cleanup`); each spawned service then
binds its address or fails on its own (`Bind`). `Interrupt` and `SendShutdown` are
the two requests to stop, `Wake` the two branches of the `select!`. rumqttd is the
environment: `Clients`, `Publish`, `Push` (a batch of meters each second) and
`BrokerStops`. `Poll` is one batch in the metrics updater. In `main.rs` nobody
sends on the shutdown channel before `Cleanup`; `Embedded` adds a user of the
library who does, through the `shutdown_sender` it exports.

## 3. The runs

| Run | Instance | Shows |
|---|---|---|
| `membership_forgets` | 2 nodes, start at any time, 2 crashes, lossy, fair | `TypeOK`, `VerdictsAreEarned`, `SilenceIsBounded`, `CrashedIsForgotten` |
| `membership_mesh` | 3 nodes, started one after the other, 1 crash, lossless, timers on time, fair | `NoSelfPeer`, `EntriesDescribeTheirNode`, `MutualPeersAreTrusted`, `MeshForms`, `MeshLasts`, and the refinement `ImplementsPeerView` |
| `discovery_split` | 2 nodes, direct addresses, lossless | `DownIsConfirmed` is violated |
| `retained_restart` | 2 nodes, 2 topics, 3 concurrent publications, 1 fault (a crash, a removal or an entry that loses its address), restarts, lossy | `TypeOK`, `CopiesAreTruthful`, `OwnWritesHold` |
| `retained_calm` | 3 nodes, 3 publications one at a time, lossless, fair | `Converged`, `EveryPublicationSpreads` |
| `assignment_races` | 3 nodes, 2 concurrent calls, 1 fault (a crash, a removal or an entry that loses its groups), restarts, lossy | `TypeOK`, `AssignmentsWereRequested` |
| `assignment_calm` | 3 nodes with a group each, 2 calls one at a time, lossless, fair | `AgreedWhenQuiet`, `ListingsAgree`, `LookupsAgree`, `RebalanceSpreads` |
| `topic_match` | 7056 pairs of pattern and topic, fair | `TypeOK`, `ResultIsSelects`, `Terminates` |
| `node_process` | 1 process, at most 1 client and subscription at a time, 1 publication, 2 batches on their way, stop requests, fair | `TypeOK`, `CountersAreExact`, `GaugesCatchUp`, `StopRequestsEnd` |
| `peer_map_locks` | 2 threads, 2 shards with a peer each, the sender, 1 call, 1 listing, 1 handler, 1 look-up, the checker, fair | `TypeOK`, `StuckForEver`, `OnlySendsDeadlock`, `HandlersEnd`, `WalksEnd` |
| `startup` | command lines of up to 5 words, files and environments with one or two settings more than needed, both builds | `TypeOK`, `LastFileCounts`, `RunsAsConfigured`, `PanicsAreUnvalidated`, `KeysOpen`, `BridgeMargin` |
| `startup_documented_names` | as `startup` | `DocumentedNamesCount` is violated |

**Bounds.** A tick is 5 s: `HeartbeatEvery` 1, `CheckEvery` 2, `SuspectAfter` 2,
`DownAfter` 6 are the code's 5, 10, 10 and 30 s. `membership_mesh` shortens them to 1, 1, 1
and 2, which keeps their order (a heartbeat or more per period of the checker, suspicion
before condemnation) and lets silence be noticed, spread and forgotten within few states.
Two nodes exhibit every race between two parties (join against
heartbeat, checker against handler, crash against unread request); the third
node adds second-hand knowledge, the only way an entry moves on, and a snapshot
of a snapshot already occurs with three. One heartbeat in flight per pair is enough
where timers are on time (each is read in the tick it is sent in).
Crashes, publications, calls, faults, restarts and seconds
are bounded by the `Max...` constants: two concurrent calls or three publications
make every order of two messages and a later third one. Three levels with two
plain strings cover each branch of the loop at the start, middle and end of both
strings, and every difference in length. In `node_process` a publication may come
before, between and after two batches that are both still in the channel, which is all
that a sum of increments can tell apart. In `peer_map_locks` two threads are enough to
have one left over or none, and two shards to hold one while waiting for the other; there
is a task of each kind, the handler wants the first shard and the look-up the second, and
a call beside the sender makes two readers of one shard. In `startup` the
values are those on either side of each decision (43 and 44 s, the longest delay that
fits and the next one, limits of 0, QoS 2 and 3), and two settings at a time are what a
condition of the code looks at; five words hold `-c` twice with a file each and once more
without one, and any other word before, between and after. The environments give each
setting by the separated prefix, some by the documented one, alone or beside the other.

**`Prompt`** lets the clock advance only when nothing is due. It is the
assumption that the runtime handles messages and timers within five seconds. It
is used exactly where the property is about time (`SilenceIsBounded` and
`MutualPeersAreTrusted`, which are proved under it, and the mesh); `VerdictsAreEarned`
is proved without it. **`StartWhen`**
limits when a node may start: at any time, once no handshake is under way
("joined"), or once nothing is due ("settled").

**Symmetry** is used for safety only. Groups are named like their nodes, so a
permutation of nodes renames both.

**Deadlock** is checked for `Membership`, where the clock always advances. The
other modules run out of publications, calls or input, or the process exits, and end;
`PeerMapLocks` really gets stuck, which is what its properties are about.

**Fairness.** Weak fairness of every handler, joiner and timer task: tokio polls
every task that is ready, and none of these actions waits on a condition another
one keeps toggling. Weak fairness of `Tick`: time passes. No fairness of `Start`,
`Crash`, `Learn`, new publications or calls, which the environment chooses, nor
of lossy outcomes: a send may fail for ever where `Lossy`. In `NodeProcess` the
router's `Push` is fair too, because rumqttd is configured to push every second
(`core.rs:102-111`); clients, the end of the broker and stop requests are not.

`PeerMapLocks` needs strong fairness: a thread that is free now may be taken again, and a
lock that is free now may be held again. A task that is ready is polled if a thread is
free again and again, because tokio's run queues are first in, first out and idle
threads steal; a lock that is free again and again is got, because a call walks once and
the sender pauses five seconds between its rounds, longer than a waiting thread
takes to wake up. A send that has begun ends (weak fairness of `EndSend`), because the
operating system gives a connection up after minutes at the latest. Nothing makes
messages arrive, walks begin or checks start. `Startup` states no fairness: its
properties are all about what has happened.

Two liveness properties have premises. `MeshForms` and `MeshLasts` speak of
behaviours in which all nodes stay up from some time on. `MeshForms` adds that none has
crashed: after a crash, a restarted node's entry at a peer may be one that leads nowhere,
by the race of `discovery_split`, and the peer, to which that node is a stranger, may then
stay unknown to it for good. `MeshLasts` adds that no
heartbeat handler missed its look-up: without it `<>[]Mesh` is false even for
three healthy nodes, by the race of `discovery_split`.

## 4. Where the code differs from what it says

Shown by runs:

- **A live node is condemned** (`discovery_split`, `coordinator.rs:584`; `node.rs:15`
  "confirmed down"). A node that joins handles a heartbeat of the node it has asked while
  the response is on its way: the look-up misses, the joiner's own merge of the response
  installs the entry (711), and the handler then replaces it by one with the connection's
  client port. Nothing is ever delivered there, so the other side hears nothing more and
  marks a running peer Down.
- **The documented variables are not read** (`startup_documented_names`, `loader.rs:38`;
  `main.rs:71`, `loader.rs:35`). They are documented as `OTTERWATCH_MQTT_MQTT__LISTEN_ADDR`.
  With a separator set and no separator of the prefix, the config crate expects the former
  after the prefix too, `OTTERWATCH_MQTT__MQTT__LISTEN_ADDR`, and ignores every other name.

Also met while modelling, and not given a run of their own:

- A dead broker goes unnoticed (`core.rs:228`; `core.rs:227` "Wait for the broker to
  exit"). `wait` listens to the shutdown channel, on which nobody sends, and not to the
  broker thread: when the broker ends, because its port is taken, say, the process goes
  on, and its health check says `ok`. In `NodeProcess.cfg` with `Embedded = FALSE`, add
  `(broker = "stopped") ~> (main = "exited")` to see it.
- All worker threads can block on shard locks while the walkers that have them wait for a
  thread (`coordinator.rs:194` against 526, 577 and 223), directly or behind the checker,
  which keeps one shard while it waits for the next: the coordinator, and with it the API,
  then stands still for good. `Stuck` is reachable in `PeerMapLocks.cfg`;
  `ThreadsPreventIt` says that as many threads as tasks are enough, and one task per
  connection means that no fixed number is.
- The connection timeout has the 1.5-fold margin of the comment at `core.rs:72` up to a
  keepalive of 43 s only: 1500 ms times the seconds plus 5 s is clamped to 65 s.
  (`KeepaliveMargin` states for which values it holds, and is proved; no run checks it.)
  A ping delay above 2863308 s may be cut to 32 bits or overflow (`core.rs:117`), and
  then wraps, in a release build, to a timeout that may be below 5 s.
- Without a configuration file a start does not go on "using defaults"
  (`loader.rs:28-31`): `[node]`, `[mqtt]` and `[auth]` have no default as sections
  (`schema.rs:10-16`), so the environment has to name all three and to switch
  `require_auth` off, since keys are a list, which the environment as it is configured
  (no list separator) cannot give.
- `listen_addr`, `public_addr` and `bind_addr` are validated by nobody: a wrong one is a
  panic (`main.rs:137`, `coordinator.rs:60`, `core.rs:59`) and not the error that
  `load_config` gives for the other settings. `PanicsAreUnvalidated` says that, ping delays aside,
  they are the only ones.
- Stores differ for ever: `store` overwrites, `store_synced` ignores a message of
  the same second (`retained.rs:65`), so two publications to one topic on two nodes
  within a second stay where they were made, with nothing lost. With `Calm = FALSE`, two
  nodes and two publications in `RetainedCalm.cfg`, `Converged` fails; `OwnWritesHold` is the part of it that holds.
- Tables differ for ever: announcements are unordered and unconditional
  (`coordinator.rs:591`), so two reassign calls that cross each other leave each node
  with the other's choice. With `Calm = FALSE` in `AssignmentCalm.cfg`,
  `AgreedWhenQuiet` fails.
- The gauge of subscriptions keeps its last value when there are none left
  (`metrics/mod.rs:141`), so `GaugesCatchUp` speaks of one or more. All gauges keep
  theirs when the broker has stopped.
- With `bind_addr = "0.0.0.0:7000"`, the default and README.md's cluster example,
  that address is what a node announces (`coordinator.rs:510`), so its peers
  send their heartbeats to themselves. Give `BindAddr` the value `WildcardAddr` in
  `DiscoverySplit.cfg`, with `StartWhen = "settled"` and `MaxInFlight = 2`, to see
  `DownIsConfirmed` fail without any race.
- The checker removes a peer that a heartbeat refreshed between its two loops
  (`coordinator.rs:231-234`): `VerdictsAreEarned` therefore speaks of what an entry
  reads, not of what is removed.
- A join response makes every entry it brings fresh (`coordinator.rs:704`), and
  passes a peer known from a heartbeat on as healthy and without groups (543), which
  reads as "handles all groups".
- The receiver stamps a synced message on arrival (`coordinator.rs:619`), so a
  delayed older one replaces a newer one.
- A late or restarted node never gets older retained messages: `request_retained`
  (354) has no caller, and its answer is not read. It ignores the assignments in
  the join response too (694).
- A target can be removed and swept between the check and the write of
  `reassign_group` (380, 409); the assignment to it then stays.
- A node that stops and starts again, or is removed and comes back, is never told the
  assignments of the others: with `MaxFaults = 1` in `AssignmentCalm.cfg`, `AgreedWhenQuiet`
  fails.
- `find_node_for_group` prefers the static configuration (260) and looks a node
  reassigned to itself up among its peers, where it never is (266); the listing
  gives dynamic assignments priority (320). `LookupsAgree` leaves these two cases out.
- `x/#` does not select `x` (`retained.rs:120`), against the comment at 139 ("unless pattern
  ended with #"). `Selects` follows the comment, and `ResultIsSelects` leaves a topic that
  ends where the pattern has its `#` out.
- A second-hand entry is as fresh as a first-hand one (`node.rs:96`): a dead node comes back
  to the table of whoever joins through a peer that has not noticed yet.

## 5. What is proved

For every set of nodes, topics or groups and every value of the constants that
meets the modules' named assumptions:

| Theorem | Property | Argument |
|---|---|---|
| `TypeCorrect` | `TypeOK` of `Membership` | one step per action; lemmas type the operators on entries |
| `EntriesDescribe` | `EntriesDescribeTheirNode` | inductive as it stands. `EntryOrigins` lists what a step can make of an entry (itself older, checked or refreshed; a join's; a discovered one; an item of a response; none), `ResponseOrigins` the same for items; each origin keeps `Describes` |
| `VerdictsEarned` | `VerdictsAreEarned` | by `EntryOrigins`, strengthened by `ResponsesAreFresh` (a response carries no verdict) |
| `NeverOwnPeer` | `NoSelfPeer` | for direct addresses; strengthened by `NoSelfTraffic`: nothing a node sends is on its way back to it. Uses `EntriesDescribeTheirNode` to know where a heartbeat goes |
| `PeerTableImplements` | `ImplementsPeerView` | `Membership` implements `PeerView`, for direct addresses. One step per action: the initial states map to initial states, and each step is a step of `PeerView` or none. The inductive `RInv` adds to the invariants above that nothing outlives a process (`StoppedIsIdle`, proved in `MembershipProofs`), so that a merge or a handler always is one of a running node and a start finds an empty table; `EntriesDescribeTheirNode` excludes the value "wrong" and `NoSelfPeer` an entry of one's own |
| `SilenceBounded` | `SilenceIsBounded` | under `Prompt`. Strengthened by `OldIsDoomed`: an entry older than the down threshold plus the time since the last check already waits for its removal, since the clock stands still until the removals of a check are done. `NewsIsFresh` says that what is on its way is of this moment, so that no message brings an old entry back |
| `MutualTrust` | `MutualPeersAreTrusted` | under `Orderly`. Strengthened by `HeardSinceRound`: of two nodes that can reach each other, one has heard of the other since the other's last round, unless its heartbeat or join request is on the way. A node that restarts is covered by `JoinersAreExpected` (whoever still holds it either heard of it this moment or has its request to come) and `StraysAreStopped`. `VerdictsEarned` turns the bound on the age into trust |
| `RetainedTypeCorrect` | `TypeOK` of `Retained` | with `Published`: every publication on its way has a record |
| `CopiesTruthful` | `CopiesAreTruthful` | records of publications never change, and a receiver's clock is past the publication |
| `OwnPublicationsHold` | `OwnWritesHold` | the stamp of what takes an own publication's place is later, and stays later; only the node's own stop empties its store, and takes the publication out of the claim by `since` |
| `QuietStoresConverge` | `Converged` | under `Undisturbed`. `CalmInv`: all nodes run and know each other, only the last publication is on its way, and a node that does not hold it yet awaits it and holds something of an earlier second; `store_synced` then takes it |
| `AssignmentTypeCorrect` | `TypeOK` of `GroupAssignment` | with `CallsMade`: the calls counted are records |
| `AssignmentsRequested` | `AssignmentsWereRequested` | a call keeps its kind, group and target, so what was requested stays requested |
| `QuietNodesAgree`, `QuietListingsAgree` | `AgreedWhenQuiet`, `ListingsAgree` | under `Undisturbed`. `CalmInv`: the tables differ in the group of the last call only, and there only until the announcement to a node is handled. Equal tables then give equal listings if no group is configured twice: no node has an entry of its own, so the owner falls back on itself where the others find it among their peers |
| `LookupsAlwaysAgree` | `LookupsAgree` | if every node has groups. Nothing else is assumed: it needs only `NoOwnEntry` of the peer table, so it holds through losses and stops, of which its run has none |
| `LocksTypeCorrect`, `DeadlockIsForEver` | `TypeOK`, `StuckForEver` of `PeerMapLocks` | in a stuck state no thread is free, so only `EndSend` and `Arrive` remain, and neither gives a shard up (`StuckKept`). `IInv` adds `Ascending`: an iterator wants a shard above the one it has, and nobody else has any |
| `SendsAreNeeded` | `OnlySendsDeadlock` | a thread that waits for a shard that no suspended walker has waits for an iterator, which waits for a shard further up itself; but of finitely many waiting threads one wants a shard that none is above |
| `ThreadsPreventIt` | no `Stuck` | a suspended walker occupies no thread, so with as many threads as tasks one is free |
| `BridgeArithmetic` | - | division with remainder by 2^16, twice, against one by 2^32 |
| `StartupTypeCorrect`, `LastFile`, `Configured`, `PanicsUnvalidated`, `OpenToItsKeys`, `KeepaliveMargins`, `BridgeMargins` | `KeepaliveMargin` and the six properties of the run `startup` | one inductive `Inv` that says, per stage, what is known of the sources (`Sourced`), the merge (`Merged`), the checks (`Checked`), the addresses (`Addressed`) and the products (`Built`); the margins then follow by linear arithmetic, and `DefaultsAreDocumented` compares the defaults with the reference |
| `ProcessTypeCorrect`, `CountersExact` | `TypeOK`, `CountersAreExact` of `NodeProcess` | one induction over both: the sum in `CountersAreExact` is what bounds a counter by `MaxPublishes`, and so its type. The sum is a function `shown` over the places of the channel: a `Push` extends it by one place, a `Poll` drops the first |
| `LoopTypeCorrect`, `LoopInvariant`, `LoopIsSelects` | `TypeOK`, `LoopInv`, `ResultIsSelects` | the loop invariant, and one lemma per way out of the loop |

The constants are assumed to be as the modules' `ASSUME`s say: node sets are finite
(heartbeats in flight are counted with
`Cardinality`), a node is not its own static peer, periods are positive, the
suspect threshold is not above the down threshold, and the special model values
differ from nodes and messages; in `PeerMapLocks` tasks are finitely many and of one kind each.

Some theorems hold for part of the settings only, and say so in their `ASSUME`:

- `NeverOwnPeer`, `PeerTableImplements`: every node announces an address of its own. With
  0.0.0.0 it is false (section 4).
- `OpenToItsKeys`: no two keys have one hash.
- `SilenceBounded`: `Prompt` (section 3). A checker that is late removes late.
- `MutualTrust`: `Orderly`, which is `Prompt`; no failing connection; a start among settled
  nodes only; every node dials all others, as `scripts/start-cluster.sh` configures it;
  and `HeartbeatEvery <= SuspectAfter + 1`, which the code's 5 s against 10 s meets with room. With the
  instance of `membership_mesh`, TLC finds the property violated if connections
  may fail, if the nodes dial each other in a ring, or with a period of 3 ticks, and
  confirms it for 2.
- `QuietStoresConverge`, `QuietNodesAgree`, `QuietListingsAgree`: `Undisturbed`. Publications or calls
  wait for the one before (`Calm`), nothing is lost, and no node stops. The code
  promises no agreement otherwise: crossing calls, a lost message and a restart
  each leave the nodes different for good (section 4).
- `QuietListingsAgree`: no group is configured on two nodes; which of the two a listing shows
  depends on the order of a hash table.
- `LookupsAlwaysAgree`: every node is configured with groups. A node without any "handles
  all groups" for `find_node_for_group` but is listed for none.

Only model-checked: the liveness properties, because fairness and ENABLED are beyond the
prover (`CrashedIsForgotten`, `MeshForms`, `MeshLasts`, `EveryPublicationSpreads`,
`RebalanceSpreads`, `Terminates`, `GaugesCatchUp`, `StopRequestsEnd`, `HandlersEnd`,
`WalksEnd`), and the counterexamples to `DownIsConfirmed` and `DocumentedNamesCount`. Every safety
property of a passing run is stated by a theorem.

## 6. Not modelled

- rumqttd, axum and tokio themselves; the framing and JSON of `protocol.rs` (a
  serde round trip); the read-only API endpoints.
- Settings that are only passed on: names, directories, groups, sizes of packets and
  segments, the endpoints of the API; the syntax of files and of environment
  variables (a source that does not parse is a failure of `ReadSources`).
- The wait of an API request or a publication inside a walk, except as one more walker.
- Code without a caller: `request_retained`, `RetainedStore::remove` and `clear`,
  `update_connection_count`, `shutdown_sender`. `connection_count` and `mqtt_addr` of an entry are
  payload no decision depends on.

## 7. Plan

1. Proofs: how long a peer that is known second-hand only can go unheard, as the bound that
   takes the place of `MutualPeersAreTrusted` where not every node dials all others; what a
   single step may do to a store or a table, as action properties.
2. `RetainedRequest` and `remove`, once the program calls them.
