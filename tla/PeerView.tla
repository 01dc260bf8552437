------------------------------ MODULE PeerView ------------------------------
(***************************************************************************)
(* What a node's peer table promises to the rest of the coordinator        *)
(* (src/cluster/coordinator.rs: peers): which entries it may gain, change  *)
(* and lose, without the messages, timers and tasks that make it so.       *)
(* Module Membership implements it, with ImplementsPeerView as the         *)
(* mapping; modules GroupAssignment and Retained use its actions as their  *)
(* environment.                                                            *)
(***************************************************************************)
CONSTANT Node

VARIABLES
  running,  \* the nodes whose process runs
  view      \* view[n][p]: what n's table holds for p

vars == <<running, view>>

\* No entry, one found through a heartbeat (with the client port of a connection
\* for an address, and no groups yet), the same after another heartbeat (with
\* the groups of its node), or one with what its node announces: the only one
\* that a message to the node can be sent by.
Knowledge == {"absent", "bare", "heard", "full"}

Empty == [p \in Node |-> "absent"]

Init ==
  /\ running = {}
  /\ view = [n \in Node |-> Empty]

\* A node starts with an empty table and loses it when it stops.
Start(n) ==
  /\ n \notin running
  /\ running' = running \cup {n}
  /\ UNCHANGED view

Stop(n) ==
  /\ n \in running
  /\ running' = running \ {n}
  /\ view' = [view EXCEPT ![n] = Empty]

\* A running node gains entries and overwrites entries, a full one by a bare
\* one too, and none is of the node itself.
Learn(n, row) ==
  /\ n \in running
  /\ row[n] = "absent"
  /\ \A p \in Node : row[p] = view[n][p] \/ row[p] # "absent"
  /\ view' = [view EXCEPT ![n] = row]
  /\ UNCHANGED running

\* It loses them one at a time.
Forget(n, p) ==
  /\ n \in running
  /\ view[n][p] # "absent"
  /\ view' = [view EXCEPT ![n][p] = "absent"]
  /\ UNCHANGED running

Next ==
  \E n \in Node :
    \/ Start(n)
    \/ Stop(n)
    \/ \E row \in [Node -> Knowledge] : Learn(n, row)
    \/ \E p \in Node : Forget(n, p)

Spec == Init /\ [][Next]_vars
=============================================================================
