----------------------------- MODULE NodeProcess -----------------------------
(***************************************************************************)
(* One node's process (src/main.rs, src/broker/core.rs,                    *)
(* src/metrics/mod.rs): main starts the broker thread, the metrics updater *)
(* and up to three services one after the other, waits for a reason to     *)
(* stop, and exits.  Meanwhile the broker pushes its meters through a      *)
(* channel to the updater, which turns them into gauges and counters.      *)
(*                                                                         *)
(* The broker itself is rumqttd: here an environment that accepts clients  *)
(* and publications, pushes a batch of meters at intervals, and may stop.  *)
(***************************************************************************)
EXTENDS Integers, Sequences

CONSTANTS
  Enabled,       \* the services the configuration turns on
  Embedded,      \* somebody holds the shutdown_sender of the broker and uses it
  MaxClients,    \* bound: connections, and subscriptions, at a time
  MaxPublishes,  \* bound: publications in a behaviour
  MaxQueue       \* bound: batches of meters not yet received

Service == {"coordinator", "api", "endpoint"}

ASSUME ProcessAssumption ==
  /\ Enabled \subseteq Service
  /\ "api" \in Enabled
  /\ Embedded \in BOOLEAN
  /\ MaxClients \in Nat /\ MaxPublishes \in Nat /\ MaxQueue \in Nat \ {0}

\* Publications are counted by what became of them.
Outcome == {"received", "failed"}
Counts == [Outcome -> 0..MaxPublishes]

\* What the router reports: levels of the first two, increments of the last.
Meters == [connections: 0..MaxClients, subscriptions: 0..MaxClients, publishes: Counts]

VARIABLES
  main,           \* where main is
  broker,         \* the broker thread
  service,        \* service[s]: the task main spawned for s
  interrupted,    \* Ctrl-C has arrived and main has not woken up yet
  told,           \* a shutdown signal waits in the channel that main listens to
  connections,    \* clients connected to the broker
  subscriptions,  \* subscriptions in the broker
  published,      \* publications the broker has seen, by outcome
  pending,        \* those of them no batch has reported yet
  link,           \* batches on their way to the updater
  metrics         \* the collector: two gauges and the counters

process == <<main, service, interrupted, told>>
router == <<broker, connections, subscriptions, published, pending>>
vars == <<process, router, link, metrics>>

\* main has a statement for each in turn.
Stage == {"loading", "broker", "updater", "coordinator", "api", "endpoint",
          "waiting", "cleanup", "exited"}

Alive == main # "exited"

\* The updater thread is spawned before the first service and never ends.
UpdaterRuns == Alive /\ main \notin {"loading", "broker", "updater"}

NoCounts == [o \in Outcome |-> 0]

Init ==
  /\ main = "loading"
  /\ broker = "none"
  /\ service = [s \in Service |-> "off"]
  /\ interrupted = FALSE
  /\ told = FALSE
  /\ connections = 0
  /\ subscriptions = 0
  /\ published = NoCounts
  /\ pending = NoCounts
  /\ link = <<>>
  /\ metrics = [connections |-> 0, subscriptions |-> 0, publishes |-> NoCounts]

-----------------------------------------------------------------------------
(* main.                                                                   *)

\* load_config and validate_config: a configuration that is missing, cannot be
\* read or is rejected ends the process.
LoadConfig ==
  /\ main = "loading"
  /\ main' \in {"broker", "exited"}
  /\ UNCHANGED <<service, interrupted, told, router, link, metrics>>

\* OtterWatchBroker::start: a bad address, or no link to the meters, ends the
\* process; otherwise the broker runs in a thread of its own.
StartBroker ==
  /\ main = "broker"
  /\ \/ main' = "updater" /\ broker' = "running"
     \/ main' = "exited" /\ UNCHANGED broker
  /\ UNCHANGED <<service, interrupted, told, connections, subscriptions,
                 published, pending, link, metrics>>

SpawnUpdater ==
  /\ main = "updater"
  /\ main' = "coordinator"
  /\ UNCHANGED <<service, interrupted, told, router, link, metrics>>

After(s) == CASE s = "coordinator" -> "api"
              [] s = "api" -> "endpoint"
              [] s = "endpoint" -> "waiting"

\* The three spawns; a service that is turned off is skipped.  With the last of
\* them main enters its select, which subscribes to the shutdown channel and
\* installs the handler of Ctrl-C.
Spawn(s) ==
  /\ main = s
  /\ main' = After(s)
  /\ service' = [service EXCEPT ![s] = IF s \in Enabled THEN "starting" ELSE "off"]
  /\ UNCHANGED <<interrupted, told, router, link, metrics>>

\* The spawned task binds its address.  If it cannot, the task ends, with an
\* error in the log or a panic of its own, and main goes on.
Bind(s) ==
  /\ Alive
  /\ service[s] = "starting"
  /\ \E outcome \in {"serving", "failed"} : service' = [service EXCEPT ![s] = outcome]
  /\ UNCHANGED <<main, interrupted, told, router, link, metrics>>

\* Ctrl-C: before main waits for it, it kills the process.
Interrupt ==
  /\ main \notin {"cleanup", "exited"}
  /\ IF main = "waiting"
       THEN interrupted' = TRUE /\ UNCHANGED main
       ELSE main' = "exited" /\ UNCHANGED interrupted
  /\ UNCHANGED <<service, told, router, link, metrics>>

\* A send on the shutdown channel.  It only matters while main is listening:
\* the channel starts without a receiver, and what is sent to nobody is lost.
SendShutdown ==
  /\ Embedded
  /\ main = "waiting"
  /\ told' = TRUE
  /\ UNCHANGED <<main, service, interrupted, router, link, metrics>>

\* Mutant: the select has no branch for Ctrl-C.
Wake_OnlyTold ==
  /\ main = "waiting"
  /\ told
  /\ main' = "cleanup"
  /\ UNCHANGED <<service, interrupted, told, router, link, metrics>>

\* Either branch of the select: Ctrl-C, or BrokerHandle::wait, which listens to
\* the shutdown channel.
Wake ==
  /\ main = "waiting"
  /\ interrupted \/ told
  /\ main' = "cleanup"
  /\ UNCHANGED <<service, interrupted, told, router, link, metrics>>

\* The send that nobody hears, the pause, and the end of the process.
Cleanup ==
  /\ main = "cleanup"
  /\ main' = "exited"
  /\ UNCHANGED <<service, interrupted, told, router, link, metrics>>

-----------------------------------------------------------------------------
(* The broker thread.                                                      *)

BrokerRuns == Alive /\ broker = "running"

\* broker.start() returns, with or without an error: the thread ends.
BrokerStops ==
  /\ BrokerRuns
  /\ broker' = "stopped"
  /\ connections' = 0
  /\ subscriptions' = 0
  /\ UNCHANGED <<process, published, pending, link, metrics>>

Clients ==
  /\ BrokerRuns
  /\ \E c, s \in 0..MaxClients :
       /\ {c - connections, s - subscriptions} \in {{0, 1}, {0, -1}}
       /\ connections' = c
       /\ subscriptions' = s
  /\ UNCHANGED <<process, broker, published, pending, link, metrics>>

Publish(o) ==
  /\ BrokerRuns
  /\ published["received"] + published["failed"] < MaxPublishes
  /\ published' = [published EXCEPT ![o] = @ + 1]
  /\ pending' = [pending EXCEPT ![o] = @ + 1]
  /\ UNCHANGED <<process, broker, connections, subscriptions, link, metrics>>

\* The router's meters, pushed every second: increments since the last batch.
\* (MaxQueue stands for a channel that never fills: it is polled ten times a
\* second.)
Push ==
  /\ BrokerRuns
  /\ Len(link) < MaxQueue
  /\ link' = Append(link, [connections |-> connections, subscriptions |-> subscriptions,
                           publishes |-> pending])
  /\ pending' = NoCounts
  /\ UNCHANGED <<process, broker, connections, subscriptions, published, metrics>>

-----------------------------------------------------------------------------
(* The updater thread.                                                     *)

\* Mutants: the counters are set; the connections are added up; so are the
\* subscriptions, their count not being reset between batches.
Poll_SetsCounters ==
  /\ UpdaterRuns
  /\ link # <<>>
  /\ LET batch == Head(link) IN
       metrics' = [connections |-> batch.connections,
                   subscriptions |-> IF batch.subscriptions > 0 THEN batch.subscriptions
                                                                ELSE metrics.subscriptions,
                   publishes |-> batch.publishes]
  /\ link' = Tail(link)
  /\ UNCHANGED <<process, router>>

Poll_AddsConnections ==
  /\ UpdaterRuns
  /\ link # <<>>
  /\ LET batch == Head(link) IN
       metrics' = [connections |-> metrics.connections + batch.connections,
                   subscriptions |-> IF batch.subscriptions > 0 THEN batch.subscriptions
                                                                ELSE metrics.subscriptions,
                   publishes |-> [o \in Outcome |-> metrics.publishes[o] + batch.publishes[o]]]
  /\ link' = Tail(link)
  /\ UNCHANGED <<process, router>>

Poll_OnlyNewPublishes ==
  /\ UpdaterRuns
  /\ link # <<>>
  /\ LET batch == Head(link) IN
       metrics' = IF batch.publishes = NoCounts THEN metrics
                  ELSE [connections |-> batch.connections,
                        subscriptions |-> batch.subscriptions,
                        publishes |-> [o \in Outcome |-> metrics.publishes[o] + batch.publishes[o]]]
  /\ link' = Tail(link)
  /\ UNCHANGED <<process, router>>

\* One batch: levels are set, increments added, and the subscriptions counted,
\* unless there are none.  (An empty or closed channel changes nothing.)
Poll ==
  /\ UpdaterRuns
  /\ link # <<>>
  /\ LET batch == Head(link) IN
       metrics' = [connections |-> batch.connections,
                   subscriptions |-> IF batch.subscriptions > 0 THEN batch.subscriptions
                                                                ELSE metrics.subscriptions,
                   publishes |-> [o \in Outcome |-> metrics.publishes[o] + batch.publishes[o]]]
  /\ link' = Tail(link)
  /\ UNCHANGED <<process, router>>

-----------------------------------------------------------------------------
Next ==
  \/ LoadConfig \/ StartBroker \/ SpawnUpdater
  \/ \E s \in Service : Spawn(s) \/ Bind(s)
  \/ Interrupt \/ SendShutdown \/ Wake \/ Cleanup
  \/ BrokerStops \/ Clients \/ Push \/ Poll
  \/ \E o \in Outcome : Publish(o)

Spec == Init /\ [][Next]_vars

\* Threads and tasks run, and the router pushes at its interval.  Nothing makes
\* clients come, the broker stop, or anybody ask for the end.
Fairness ==
  /\ WF_vars(LoadConfig) /\ WF_vars(StartBroker) /\ WF_vars(SpawnUpdater)
  /\ \A s \in Service : WF_vars(Spawn(s)) /\ WF_vars(Bind(s))
  /\ WF_vars(Wake) /\ WF_vars(Cleanup)
  /\ WF_vars(Push) /\ WF_vars(Poll)

FairSpec == Spec /\ Fairness

-----------------------------------------------------------------------------
(* Properties.                                                             *)

\* Type correctness of the eleven variables.
TypeOK ==
  /\ main \in Stage
  /\ broker \in {"none", "running", "stopped"}
  /\ service \in [Service -> {"off", "starting", "serving", "failed"}]
  /\ {interrupted, told} \subseteq BOOLEAN
  /\ {connections, subscriptions} \subseteq 0..MaxClients
  /\ {published, pending} \subseteq Counts
  /\ link \in Seq(Meters) /\ Len(link) <= MaxQueue
  /\ metrics \in Meters

\* The counter of an outcome before the next batch, after it, and so on to the
\* last batch of the channel.
WillShow(o, shown) ==
  /\ shown[0] = metrics.publishes[o]
  /\ \A k \in 1..Len(link) : shown[k] = shown[k - 1] + link[k].publishes[o]

\* No publication is lost or counted twice on its way through the three
\* threads: once the updater has received what the channel holds, the counters
\* and what the router has yet to report add up to what was published
\* (metrics/mod.rs:127-133).
CountersAreExact ==
  \A o \in Outcome : \E shown \in [0..Len(link) -> 0..MaxPublishes] :
    WillShow(o, shown) /\ shown[Len(link)] + pending[o] = published[o]

\* While the broker runs, the two gauges come to show a number of connections or
\* subscriptions that lasts, except for no subscription at all: then the gauge
\* keeps the last number there was (metrics/mod.rs:124-126 and 141).
GaugesCatchUp ==
  /\ \A c \in 0..MaxClients :
       <>[](BrokerRuns /\ connections = c) => <>[](metrics.connections = c)
  /\ \A n \in 1..MaxClients :
       <>[](BrokerRuns /\ subscriptions = n) => <>[](metrics.subscriptions = n)

\* A request to stop that arrives while main waits ends the process
\* (main.rs:209-226).
StopRequestsEnd == (interrupted \/ told) ~> (main = "exited")
=============================================================================
