--------------------------- MODULE GroupAssignment ---------------------------
(***************************************************************************)
(* Dynamic group assignments (src/cluster/coordinator.rs): reassign_group  *)
(* and unassign_group on the node that gets the request, the announcements *)
(* to its peers, the sweep of the health checker after it removed a peer,  *)
(* and the two ways to look a group up.  Nothing orders two announcements: *)
(* each travels on a connection of its own and is handled by a task of its *)
(* own.                                                                    *)
(*                                                                         *)
(* The peer table is the one PeerView promises, which module Membership    *)
(* implements: nodes start and stop, and entries come, change and go, at   *)
(* any moment between the steps of a call.                                 *)
(***************************************************************************)
EXTENDS Integers

CONSTANTS
  Node, Group,
  AssignedGroups,  \* AssignedGroups[n]: n's configured assigned_groups
  Nobody,          \* the group has no dynamic assignment
  NoCall,          \* a call that has not been made
  MaxCalls,        \* bound: reassign and unassign calls in a behaviour
  MaxFaults,       \* bound: nodes stopped and entries lost in a behaviour
  Unassigns,       \* unassign_group is called as well
  Lossy,           \* a connection to a peer may fail
  Calm             \* calls come one at a time

Call == 1..MaxCalls

ASSUME AssignmentAssumption ==
  /\ AssignedGroups \in [Node -> SUBSET Group]
  /\ MaxCalls \in Nat /\ MaxFaults \in Nat
  /\ {Unassigns, Lossy, Calm} \subseteq BOOLEAN
  /\ Nobody \notin Node

VARIABLES
  running,      \* the nodes whose process runs
  view,         \* view[n][p]: n's entry for p
  assignments,  \* assignments[n]: group_assignments of n
  count,        \* number of calls so far
  call,         \* call[i]: where it runs, what it asks for, how far it is
  told,         \* told[i]: the peers call i has dealt with
  due,          \* due[i]: the peers it is still sure to come to
  net,          \* announcements on their way
  sweeping,     \* sweeping[n]: a removed peer whose assignments are still there
  faults        \* number of faults so far

table == <<running, view>>
vars == <<running, view, assignments, count, call, told, due, net, sweeping, faults>>

Peers == INSTANCE PeerView

Announcement == [id: Call, to: Node, kind: {"assigned", "unassigned"},
                 group: Group, node: Node]

\* "checked": reassign_group has seen that the target exists; "telling": the
\* own table is written and the peers are being told.
Progress == {"checked", "telling", "done"}

CallRecord == [node: Node, kind: {"assigned", "unassigned"}, group: Group,
               target: Node, step: Progress]

Known(n) == {p \in Node : view[n][p] # "absent"}

\* No call is running, nothing is on its way, no sweep is due.
Quiet ==
  /\ net = {}
  /\ \A i \in 1..count : call[i].step = "done"
  /\ \A n \in Node : sweeping[n] = Nobody

Init ==
  /\ running = Node
  /\ view = [n \in Node |-> [p \in Node |-> IF p = n THEN "absent" ELSE "full"]]
  /\ assignments = [n \in Node |-> [g \in Group |-> Nobody]]
  /\ count = 0
  /\ call = [i \in Call |-> NoCall]
  /\ told = [i \in Call |-> {}]
  /\ due = [i \in Call |-> {}]
  /\ net = {}
  /\ sweeping = [n \in Node |-> Nobody]
  /\ faults = 0

\* The next call, accepted by n and advanced to a step.
Accept(n, kind, g, t, step) ==
  /\ n \in running
  /\ count < MaxCalls
  /\ Calm => Quiet
  /\ count' = count + 1
  /\ call' = [call EXCEPT ![count + 1] =
                [node |-> n, kind |-> kind, group |-> g, target |-> t, step |-> step]]

\* reassign_group up to "target exists"; an unknown target changes nothing.
CheckTarget(n, g, t) ==
  /\ t = n \/ t \in Known(n)
  /\ Accept(n, "assigned", g, t, "checked")
  /\ UNCHANGED <<table, assignments, told, due, net, sweeping, faults>>

\* reassign_group under the write lock; it ends here if nothing changes.
WriteAssignment(i) ==
  /\ i <= count
  /\ call[i].step = "checked"
  /\ LET c == call[i] IN
       IF assignments[c.node][c.group] = c.target
         THEN /\ call' = [call EXCEPT ![i].step = "done"]
              /\ UNCHANGED <<assignments, due>>
         ELSE /\ call' = [call EXCEPT ![i].step = "telling"]
              /\ assignments' = [assignments EXCEPT ![c.node][c.group] = c.target]
              /\ due' = [due EXCEPT ![i] = Known(c.node)]
  /\ UNCHANGED <<table, count, told, net, sweeping, faults>>

\* Mutant: the peers are not told.
RemoveAssignment_Silently(n, g) ==
  /\ Unassigns
  /\ assignments[n][g] # Nobody
  /\ Accept(n, "unassigned", g, assignments[n][g], "done")
  /\ assignments' = [assignments EXCEPT ![n][g] = Nobody]
  /\ UNCHANGED <<table, told, due, net, sweeping, faults>>

\* unassign_group under the write lock; without an assignment it returns.
\* (Part of the coordinator's interface; nothing in the program calls it yet.)
RemoveAssignment(n, g) ==
  /\ Unassigns
  /\ assignments[n][g] # Nobody
  /\ Accept(n, "unassigned", g, assignments[n][g], "telling")
  /\ assignments' = [assignments EXCEPT ![n][g] = Nobody]
  /\ due' = [due EXCEPT ![count + 1] = Known(n)]
  /\ UNCHANGED <<table, told, net, sweeping, faults>>

\* The last loop of either call, one peer at a time; a failed send is skipped.
\* An entry that is not full leads to a client port where nobody listens.
Tell(i, p) ==
  /\ i <= count
  /\ call[i].step = "telling"
  /\ p \in Known(call[i].node) \ told[i]
  /\ told' = [told EXCEPT ![i] = @ \cup {p}]
  /\ due' = [due EXCEPT ![i] = @ \ {p}]
  /\ \/ /\ p \in running /\ view[call[i].node][p] = "full"
        /\ net' = net \cup {[id |-> i, to |-> p, kind |-> call[i].kind,
                             group |-> call[i].group, node |-> call[i].target]}
     \/ /\ Lossy \/ p \notin running \/ view[call[i].node][p] # "full"
        /\ UNCHANGED net
  /\ UNCHANGED <<table, assignments, count, call, sweeping, faults>>

\* Mutant: the loop may end before its last peer.
FinishTelling_Early(i) ==
  /\ i <= count
  /\ call[i].step = "telling"
  /\ call' = [call EXCEPT ![i].step = "done"]
  /\ UNCHANGED <<table, assignments, count, told, due, net, sweeping, faults>>

\* The loop comes to every peer it found when it began and that has not been
\* removed since; a peer that the table learns of meanwhile may be in a shard
\* that it has passed already.
FinishTelling(i) ==
  /\ i <= count
  /\ call[i].step = "telling"
  /\ due[i] = {}
  /\ call' = [call EXCEPT ![i].step = "done"]
  /\ UNCHANGED <<table, assignments, count, told, due, net, sweeping, faults>>

\* Mutants: the receiver takes the group for the node, or itself for the target.
HandleGroupAssigned_Swapped(m) ==
  /\ m.kind = "assigned"
  /\ net' = net \ {m}
  /\ assignments' = [assignments EXCEPT ![m.to][m.group] = m.group]
  /\ UNCHANGED <<table, count, call, told, due, sweeping, faults>>

HandleGroupAssigned_ToSelf(m) ==
  /\ m.kind = "assigned"
  /\ net' = net \ {m}
  /\ assignments' = [assignments EXCEPT ![m.to][m.group] = m.to]
  /\ UNCHANGED <<table, count, call, told, due, sweeping, faults>>

\* The handler of GroupAssigned: the receiver checks nothing.
HandleGroupAssigned(m) ==
  /\ m.kind = "assigned"
  /\ net' = net \ {m}
  /\ assignments' = [assignments EXCEPT ![m.to][m.group] = m.node]
  /\ UNCHANGED <<table, count, call, told, due, sweeping, faults>>

\* The handler of GroupUnassigned: only the named assignment is removed.
HandleGroupUnassigned(m) ==
  /\ m.kind = "unassigned"
  /\ net' = net \ {m}
  /\ assignments' = [assignments EXCEPT ![m.to][m.group] =
                       IF @ = m.node THEN Nobody ELSE @]
  /\ UNCHANGED <<table, count, call, told, due, sweeping, faults>>

Fault ==
  /\ faults < MaxFaults
  /\ faults' = faults + 1

\* The health checker removes a peer ...
RemovePeer(n, p) ==
  /\ Peers!Forget(n, p)
  /\ sweeping[n] = Nobody
  /\ Fault
  /\ sweeping' = [sweeping EXCEPT ![n] = p]
  /\ due' = [i \in Call |-> IF i <= count /\ call[i].node = n
                            THEN due[i] \ {p} ELSE due[i]]
  /\ UNCHANGED <<assignments, count, call, told, net>>

\* ... and then, with the lock of the table, the assignments to that peer.
DropAssignments(n) ==
  /\ sweeping[n] # Nobody
  /\ assignments' = [assignments EXCEPT ![n] =
       [g \in Group |-> IF @[g] = sweeping[n] THEN Nobody ELSE @[g]]]
  /\ sweeping' = [sweeping EXCEPT ![n] = Nobody]
  /\ UNCHANGED <<table, count, call, told, due, net, faults>>

\* The table learns of a peer, by a join or heartbeats (of several in as many
\* steps).  Whatever a join response says of assignments is not read.  A full
\* entry gives way to one that leads nowhere only by a fault.
Learn(n, p, entry) ==
  /\ view[n][p] # entry
  /\ Peers!Learn(n, [view[n] EXCEPT ![p] = entry])
  /\ IF view[n][p] = "full" THEN Fault ELSE UNCHANGED faults
  /\ UNCHANGED <<assignments, count, call, told, due, net, sweeping>>

\* A node stops with its tables, its calls and the messages it has not read.
Crash(n) ==
  /\ Peers!Stop(n)
  /\ Fault
  /\ assignments' = [assignments EXCEPT ![n] = [g \in Group |-> Nobody]]
  /\ call' = [i \in Call |-> IF i <= count /\ call[i].node = n
                              THEN [call[i] EXCEPT !.step = "done"] ELSE call[i]]
  /\ net' = {m \in net : m.to # n}
  /\ sweeping' = [sweeping EXCEPT ![n] = Nobody]
  /\ UNCHANGED <<count, told, due>>

\* It starts again with empty tables.
Start(n) ==
  /\ Peers!Start(n)
  /\ UNCHANGED <<assignments, count, call, told, due, net, sweeping, faults>>

Next ==
  \/ \E n \in Node, g \in Group : RemoveAssignment(n, g) \/ \E t \in Node : CheckTarget(n, g, t)
  \/ \E i \in Call : WriteAssignment(i) \/ FinishTelling(i) \/ \E p \in Node : Tell(i, p)
  \/ \E m \in net : HandleGroupAssigned(m) \/ HandleGroupUnassigned(m)
  \/ \E n \in Node : DropAssignments(n) \/ Crash(n) \/ Start(n)
  \/ \E n, p \in Node : RemovePeer(n, p) \/ \E entry \in {"bare", "heard", "full"} : Learn(n, p, entry)

Spec == Init /\ [][Next]_vars

\* The runtime finishes what it started: calls, handlers and sweeps.
Fairness ==
  /\ \A i \in Call : /\ WF_vars(WriteAssignment(i)) /\ WF_vars(FinishTelling(i))
                     /\ \A p \in Node : WF_vars(Tell(i, p))
  /\ WF_vars(\E m \in net : HandleGroupAssigned(m) \/ HandleGroupUnassigned(m))
  /\ \A n \in Node : WF_vars(DropAssignments(n))

FairSpec == Spec /\ Fairness

-----------------------------------------------------------------------------
(* Looking a group up.                                                     *)

\* The groups n believes p to be configured with.
PeerGroups(n, p) == IF view[n][p] \in {"heard", "full"} THEN AssignedGroups[p] ELSE {}

\* handles_group: no assigned group means every group.
HandlesGroup(groups, g) == groups = {} \/ g \in groups

\* Mutant: the dynamic assignments are not looked at.
FindNodeForGroup_StaticOnly(n, g) ==
  IF HandlesGroup(AssignedGroups[n], g) THEN {n}
  ELSE {p \in Known(n) : HandlesGroup(PeerGroups(n, p), g)}

\* find_node_for_group: the nodes it may return on n ({} for None; which one,
\* if several peers handle the group, depends on the order of the hash table).
FindNodeForGroup(n, g) ==
  IF HandlesGroup(AssignedGroups[n], g) THEN {n}
  ELSE IF assignments[n][g] \in Known(n) THEN {assignments[n][g]}
  ELSE {p \in Known(n) : HandlesGroup(PeerGroups(n, p), g)}

\* Mutant: an assignment counts only if its node is in the peer table.
GetGroupAssignment_PeersOnly(n, g) ==
  IF assignments[n][g] \in Known(n) THEN {assignments[n][g]}
  ELSE IF \E p \in Known(n) : g \in PeerGroups(n, p)
    THEN {p \in Known(n) : g \in PeerGroups(n, p)}
  ELSE {p \in {n} : g \in AssignedGroups[n]}

\* get_group_assignments: the nodes it may list for g on n.
GetGroupAssignment(n, g) ==
  IF assignments[n][g] # Nobody THEN {assignments[n][g]}
  ELSE IF \E p \in Known(n) : g \in PeerGroups(n, p)
    THEN {p \in Known(n) : g \in PeerGroups(n, p)}
  ELSE {p \in {n} : g \in AssignedGroups[n]}

-----------------------------------------------------------------------------
(* Properties.                                                             *)

\* Type correctness of the ten variables.
TypeOK ==
  /\ running \subseteq Node
  /\ view \in [Node -> [Node -> Peers!Knowledge]]
  /\ assignments \in [Node -> [Group -> Node \cup {Nobody}]]
  /\ count \in 0..MaxCalls
  /\ call \in [Call -> CallRecord \cup {NoCall}]
  /\ told \in [Call -> SUBSET Node]
  /\ due \in [Call -> SUBSET Node]
  /\ net \subseteq Announcement
  /\ sweeping \in [Node -> Node \cup {Nobody}]
  /\ faults \in 0..MaxFaults

\* Some reassign call asked for g to go to t.
Requested(g, t) ==
  \E i \in 1..count : /\ call[i].kind = "assigned"
                      /\ call[i].group = g
                      /\ call[i].target = t

\* No node ever holds an assignment that nobody asked for: each one, and each
\* announcement of one, goes back to a reassign call for that very group and
\* target, however calls, sweeps and announcements interleave.
AssignmentsWereRequested ==
  /\ \A n \in Node, g \in Group :
       assignments[n][g] # Nobody => Requested(g, assignments[n][g])
  /\ \A m \in net : m.kind = "assigned" => Requested(m.group, m.node)

\* Once everything is handled, all nodes hold the same assignments
\* (cluster/mod.rs:5 "Group-based sharding (agent_group -> node mapping)").
AgreedWhenQuiet ==
  Quiet => \A n, m \in Node : assignments[n] = assignments[m]

\* Everybody has heard of the groups of everybody else.
GroupsKnown == \A n \in Node : \A p \in Node \ {n} : view[n][p] \in {"heard", "full"}

\* If every group is configured on one node only, then once everything is
\* handled and the groups of all nodes are known, all nodes list the same owner.
ListingsAgree ==
  (Quiet /\ GroupsKnown)
    => \A n, m \in Node, g \in Group : GetGroupAssignment(n, g) = GetGroupAssignment(m, g)

\* The two look-ups agree on a group that n was not configured with and that is
\* not reassigned to n itself: the caller finds the node that the listing
\* shows.  (find_node_for_group answers with n for the groups n was configured
\* with, whatever their assignment, and looks an assignment to n up among the
\* peers, where n never is.)
LookupsAgree ==
  (Quiet /\ GroupsKnown)
    => \A n \in Node, g \in Group :
         (~HandlesGroup(AssignedGroups[n], g) /\ assignments[n][g] # n)
           => FindNodeForGroup(n, g) = GetGroupAssignment(n, g)

\* A reassignment that changed the caller's table reaches every node.
RebalanceSpreads ==
  \A i \in Call :
    (i <= count) ~> (i <= count /\ \A n \in Node :
                       \/ assignments[n][call[i].group] = call[i].target
                       \/ call[i].kind = "unassigned"
                       \/ \E j \in i + 1 .. count : call[j].group = call[i].group)
=============================================================================
