------------------------ MODULE GroupAssignmentProofs ------------------------
(***************************************************************************)
(* Proofs about GroupAssignment for any cluster, any groups, any           *)
(* configuration and any number of calls, stops and lost entries.          *)
(***************************************************************************)
EXTENDS GroupAssignment, TLAPS

\* What is known of the calls made so far; only a reassign call checks a
\* target.
CallsMade ==
  \A i \in Call : i <= count => /\ call[i] \in CallRecord
                                /\ call[i].step = "checked" => call[i].kind = "assigned"

IInv == TypeOK /\ CallsMade /\ AssignmentsWereRequested

\* The counters are natural numbers.
LEMMA Counters ==
  ASSUME TypeOK
  PROVE  count \in Nat /\ faults \in Nat /\ MaxCalls \in Nat /\ MaxFaults \in Nat
  BY AssignmentAssumption DEF TypeOK

\* The record of a call that was made.
LEMMA CallFields ==
  ASSUME CallsMade, NEW i \in Call, i <= count
  PROVE  /\ call[i] \in CallRecord
         /\ call[i].node \in Node /\ call[i].group \in Group /\ call[i].target \in Node
         /\ call[i].kind \in {"assigned", "unassigned"} /\ call[i].step \in Progress
  BY DEF CallsMade, CallRecord

\* A call is left alone, or moved on.
Moved(i) ==
  \/ call'[i] = call[i]
  \/ /\ i <= count
     /\ \E step \in {"telling", "done"} : call'[i] = [call[i] EXCEPT !.step = step]

\* What a step does to the calls: it adds one, or moves some on.
LEMMA CallSteps ==
  ASSUME TypeOK, CallsMade, [Next]_vars
  PROVE  \/ UNCHANGED <<call, count>>
         \/ \E n \in Node, g \in Group, t \in Node, kind \in {"assigned", "unassigned"},
               step \in {"checked", "telling"} :
              /\ Accept(n, kind, g, t, step)
              /\ step = "checked" => kind = "assigned"
         \/ /\ call' = [i \in Call |-> call'[i]]
            /\ \A i \in Call : Moved(i)
            /\ UNCHANGED count
<1>1. ASSUME NEW n \in Node, NEW g \in Group, RemoveAssignment(n, g)
      PROVE  /\ assignments[n][g] \in Node
             /\ Accept(n, "unassigned", g, assignments[n][g], "telling")
  BY <1>1 DEF RemoveAssignment, TypeOK
<1>2. ASSUME NEW n \in Node, NEW g \in Group, NEW t \in Node, CheckTarget(n, g, t)
      PROVE  Accept(n, "assigned", g, t, "checked")
  BY <1>2 DEF CheckTarget
<1>3. ASSUME NEW i \in Call, WriteAssignment(i) \/ FinishTelling(i)
      PROVE  /\ call' = [j \in Call |-> call'[j]]
             /\ \A j \in Call : Moved(j)
             /\ UNCHANGED count
  <2>1. /\ i <= count /\ UNCHANGED count
        /\ \E step \in {"telling", "done"} : call' = [call EXCEPT ![i].step = step]
    BY <1>3 DEF WriteAssignment, FinishTelling
  <2>2. QED
    BY <2>1 DEF Moved, TypeOK
<1>c. ASSUME NEW n \in Node, Crash(n)
      PROVE  /\ call' = [j \in Call |-> call'[j]]
             /\ \A j \in Call : Moved(j)
             /\ UNCHANGED count
  BY <1>c DEF Crash, Moved
<1>4. ASSUME ~(\E n \in Node : Crash(n)),
             ~(\E n \in Node, g \in Group : RemoveAssignment(n, g)),
             ~(\E n \in Node, g \in Group, t \in Node : CheckTarget(n, g, t)),
             ~(\E i \in Call : WriteAssignment(i) \/ FinishTelling(i))
      PROVE  UNCHANGED <<call, count>>
  BY <1>4 DEF Next, vars, Tell, HandleGroupAssigned, HandleGroupUnassigned,
              DropAssignments, RemovePeer, Learn, Start
<1>5. QED
  BY <1>1, <1>2, <1>3, <1>4, <1>c

\* What every step keeps of the calls.
CallsKept ==
  /\ CallsMade'
  /\ count' \in 0..MaxCalls /\ count <= count'
  /\ call' \in [Call -> CallRecord \cup {NoCall}]
  /\ \A i \in Call : i <= count => /\ call'[i].kind = call[i].kind
                                   /\ call'[i].group = call[i].group
                                   /\ call'[i].target = call[i].target
                                   /\ call'[i].node = call[i].node

\* The calls made stay well typed and keep what they asked for.
LEMMA CallsRemain ==
  ASSUME TypeOK, CallsMade, [Next]_vars
  PROVE  CallsKept
<1>0. count \in Nat /\ MaxCalls \in Nat /\ count \in 0..MaxCalls
      /\ call \in [Call -> CallRecord \cup {NoCall}]
  BY Counters DEF TypeOK
<1>1. ASSUME UNCHANGED <<call, count>> PROVE CallsKept
  BY <1>0, <1>1 DEF CallsMade, CallsKept
<1>2. ASSUME NEW n \in Node, NEW g \in Group, NEW t \in Node,
             NEW kind \in {"assigned", "unassigned"}, NEW step \in {"checked", "telling"},
             Accept(n, kind, g, t, step), step = "checked" => kind = "assigned"
      PROVE  /\ CallsMade'
             /\ count' \in 0..MaxCalls /\ count <= count'
             /\ call' \in [Call -> CallRecord \cup {NoCall}]
             /\ \A i \in Call : i <= count => call'[i] = call[i]
  <2> DEFINE new == [node |-> n, kind |-> kind, group |-> g, target |-> t, step |-> step]
  <2>1. /\ count' = count + 1 /\ count + 1 \in Call
        /\ call' = [call EXCEPT ![count + 1] = new]
    BY <1>0, <1>2 DEF Accept, Call
  <2>2. new \in CallRecord /\ (new.step = "checked" => new.kind = "assigned")
    BY <1>2 DEF CallRecord, Progress
  <2>3. \A i \in Call : i <= count => call'[i] = call[i]
    BY <1>0, <2>1
  <2>4. call' \in [Call -> CallRecord \cup {NoCall}]
    BY <1>0, <2>1, <2>2
  <2>5. ASSUME NEW i \in Call, i <= count'
        PROVE  call'[i] \in CallRecord /\ (call'[i].step = "checked" => call'[i].kind = "assigned")
    <3>1. CASE i = count + 1
      BY <1>0, <2>1, <2>2, <3>1
    <3>2. CASE i # count + 1
      <4>1. i <= count
        BY <1>0, <2>1, <2>5, <3>2 DEF Call
      <4>2. QED
        BY <2>3, <4>1 DEF CallsMade
    <3>3. QED
      BY <3>1, <3>2
  <2>6. QED
    BY <1>0, <2>1, <2>3, <2>4, <2>5 DEF CallsMade, Call
<1>3. ASSUME call' = [i \in Call |-> call'[i]], \A i \in Call : Moved(i), UNCHANGED count
      PROVE  CallsKept
  <2>1. ASSUME NEW i \in Call, i <= count
        PROVE  /\ call'[i] \in CallRecord
               /\ call'[i].step = "checked" => call'[i].kind = "assigned"
               /\ call'[i].kind = call[i].kind /\ call'[i].group = call[i].group
               /\ call'[i].target = call[i].target /\ call'[i].node = call[i].node
    <3>1. call[i] \in CallRecord /\ (call[i].step = "checked" => call[i].kind = "assigned")
      BY <2>1 DEF CallsMade
    <3>2. CASE call'[i] = call[i]
      BY <3>1, <3>2
    <3>3. ASSUME NEW step \in {"telling", "done"}, call'[i] = [call[i] EXCEPT !.step = step]
          PROVE  /\ call'[i] \in CallRecord /\ call'[i].step # "checked"
                 /\ call'[i].kind = call[i].kind /\ call'[i].group = call[i].group
                 /\ call'[i].target = call[i].target /\ call'[i].node = call[i].node
      BY <3>1, <3>3 DEF CallRecord, Progress
    <3>4. QED
      BY <1>3, <3>1, <3>2, <3>3 DEF Moved
  <2>2. ASSUME NEW i \in Call PROVE call'[i] \in CallRecord \cup {NoCall}
    <3>1. CASE i <= count
      BY <2>1, <3>1
    <3>2. CASE ~(i <= count)
      BY <1>0, <1>3, <3>2 DEF Moved
    <3>3. QED
      BY <3>1, <3>2
  <2>3. call' \in [Call -> CallRecord \cup {NoCall}]
    BY <1>3, <2>2
  <2>4. count' = count /\ count' \in 0..MaxCalls /\ count <= count'
    BY <1>0, <1>3
  <2>5. CallsMade'
    BY <2>1, <2>4 DEF CallsMade
  <2>6. QED
    BY <2>1, <2>3, <2>4, <2>5 DEF CallsKept
<1>4. ASSUME NEW n \in Node, NEW g \in Group, NEW t \in Node,
             NEW kind \in {"assigned", "unassigned"}, NEW step \in {"checked", "telling"},
             Accept(n, kind, g, t, step), step = "checked" => kind = "assigned"
      PROVE  CallsKept
  BY <1>2, <1>4 DEF CallsKept
<1>5. QED
  BY <1>1, <1>3, <1>4, CallSteps

-----------------------------------------------------------------------------
(* Type correctness.                                                       *)

\* The initial state satisfies every part of the invariant.
LEMMA InitInv == Init => IInv
<1> SUFFICES ASSUME Init PROVE IInv
  OBVIOUS
<1>1. 0 \in 0..MaxCalls /\ 0 \in 0..MaxFaults
  BY AssignmentAssumption
<1>2. TypeOK
  BY <1>1 DEF Init, TypeOK, Peers!Knowledge
<1>3. CallsMade
  BY AssignmentAssumption DEF Init, CallsMade, Call
<1>4. AssignmentsWereRequested
  BY DEF Init, AssignmentsWereRequested
<1>5. QED
  BY <1>2, <1>3, <1>4 DEF IInv

\* Every step keeps the types.
LEMMA NextType == TypeOK /\ CallsMade /\ [Next]_vars => TypeOK'
<1> SUFFICES ASSUME TypeOK, CallsMade, [Next]_vars PROVE TypeOK'
  OBVIOUS
<1>0. /\ count' \in 0..MaxCalls
      /\ call' \in [Call -> CallRecord \cup {NoCall}]
      /\ faults \in Nat /\ MaxFaults \in Nat
  BY CallsRemain, Counters DEF CallsKept
<1>1. ASSUME NEW n \in Node, NEW g \in Group, RemoveAssignment(n, g) PROVE TypeOK'
  BY <1>0, <1>1 DEF RemoveAssignment, Known, TypeOK, table
<1>2. ASSUME NEW n \in Node, NEW g \in Group, NEW t \in Node, CheckTarget(n, g, t) PROVE TypeOK'
  BY <1>0, <1>2 DEF CheckTarget, TypeOK, table
<1>3. ASSUME NEW i \in Call, WriteAssignment(i) PROVE TypeOK'
  <2>1. call[i].node \in Node /\ call[i].group \in Group /\ call[i].target \in Node
    BY <1>3, CallFields DEF WriteAssignment
  <2>2. assignments' \in [Node -> [Group -> Node \cup {Nobody}]]
    <3>1. CASE UNCHANGED assignments
      BY <3>1 DEF TypeOK
    <3>2. CASE assignments' = [assignments EXCEPT ![call[i].node][call[i].group] = call[i].target]
      BY <2>1, <3>2 DEF TypeOK
    <3>3. QED
      BY <1>3, <3>1, <3>2 DEF WriteAssignment
  <2>3. due' \in [Call -> SUBSET Node]
    <3>1. CASE UNCHANGED due
      BY <3>1 DEF TypeOK
    <3>2. CASE due' = [due EXCEPT ![i] = Known(call[i].node)]
      BY <3>2 DEF TypeOK, Known
    <3>3. QED
      BY <1>3, <3>1, <3>2 DEF WriteAssignment
  <2>4. QED
    BY <1>0, <1>3, <2>2, <2>3 DEF WriteAssignment, TypeOK, table
<1>4. ASSUME NEW i \in Call, FinishTelling(i) PROVE TypeOK'
  BY <1>0, <1>4 DEF FinishTelling, TypeOK, table
<1>5. ASSUME NEW i \in Call, NEW p \in Node, Tell(i, p) PROVE TypeOK'
  <2>1. [id |-> i, to |-> p, kind |-> call[i].kind, group |-> call[i].group,
         node |-> call[i].target] \in Announcement
    BY <1>5, CallFields DEF Tell, Announcement
  <2>2. net' \subseteq Announcement
    BY <1>5, <2>1 DEF Tell, TypeOK, table
  <2>3. told' \in [Call -> SUBSET Node] /\ due' \in [Call -> SUBSET Node]
    BY <1>5 DEF Tell, TypeOK, table
  <2>4. QED
    BY <1>0, <1>5, <2>2, <2>3 DEF Tell, TypeOK, table
<1>6. ASSUME NEW m \in net, HandleGroupAssigned(m) PROVE TypeOK'
  <2>1. m \in Announcement
    BY DEF TypeOK
  <2>2. assignments' \in [Node -> [Group -> Node \cup {Nobody}]]
    BY <1>6, <2>1 DEF HandleGroupAssigned, TypeOK, Announcement
  <2>3. QED
    BY <1>0, <1>6, <2>2 DEF HandleGroupAssigned, TypeOK, table
<1>7. ASSUME NEW m \in net, HandleGroupUnassigned(m) PROVE TypeOK'
  <2>1. m \in Announcement
    BY DEF TypeOK
  <2>2. assignments' \in [Node -> [Group -> Node \cup {Nobody}]]
    BY <1>7, <2>1 DEF HandleGroupUnassigned, TypeOK, Announcement
  <2>3. QED
    BY <1>0, <1>7, <2>2 DEF HandleGroupUnassigned, TypeOK, table
<1>8. ASSUME NEW n \in Node, DropAssignments(n) PROVE TypeOK'
  <2>1. assignments' \in [Node -> [Group -> Node \cup {Nobody}]]
    BY <1>8 DEF DropAssignments, TypeOK, table
  <2>2. QED
    BY <1>0, <1>8, <2>1 DEF DropAssignments, TypeOK, table
<1>9. ASSUME NEW n \in Node, NEW p \in Node, RemovePeer(n, p) PROVE TypeOK'
  <2>1. faults' \in 0..MaxFaults
    BY <1>0, <1>9 DEF RemovePeer, Fault
  <2>2. running' \subseteq Node /\ view' \in [Node -> [Node -> Peers!Knowledge]]
    BY <1>9 DEF RemovePeer, TypeOK, Peers!Forget, Peers!Knowledge
  <2>3. sweeping' \in [Node -> Node \cup {Nobody}] /\ due' \in [Call -> SUBSET Node]
    BY <1>9 DEF RemovePeer, TypeOK
  <2>4. QED
    BY <1>0, <1>9, <2>1, <2>2, <2>3 DEF RemovePeer, TypeOK
<1>10. ASSUME NEW n \in Node, NEW p \in Node, NEW entry \in {"bare", "heard", "full"}, Learn(n, p, entry)
       PROVE  TypeOK'
  <2>1. faults' \in 0..MaxFaults
    BY <1>0, <1>10 DEF Learn, Fault, TypeOK
  <2>2. running' \subseteq Node /\ view' \in [Node -> [Node -> Peers!Knowledge]]
    BY <1>10 DEF Learn, TypeOK, Peers!Learn, Peers!Knowledge
  <2>3. QED
    BY <1>0, <1>10, <2>1, <2>2 DEF Learn, TypeOK
<1>11. ASSUME NEW n \in Node, Crash(n) PROVE TypeOK'
  <2>1. faults' \in 0..MaxFaults
    BY <1>0, <1>11 DEF Crash, Fault
  <2>2. running' \subseteq Node /\ view' \in [Node -> [Node -> Peers!Knowledge]]
    BY <1>11 DEF Crash, TypeOK, Peers!Stop, Peers!Empty, Peers!Knowledge
  <2>3. /\ assignments' \in [Node -> [Group -> Node \cup {Nobody}]]
        /\ net' \subseteq Announcement
        /\ sweeping' \in [Node -> Node \cup {Nobody}]
        /\ told' \in [Call -> SUBSET Node] /\ due' \in [Call -> SUBSET Node]
    BY <1>11 DEF Crash, TypeOK
  <2>4. QED
    BY <1>0, <2>1, <2>2, <2>3 DEF TypeOK
<1>12. ASSUME NEW n \in Node, Start(n) PROVE TypeOK'
  <2>1. running' \subseteq Node /\ view' = view
    BY <1>12 DEF Start, Peers!Start, TypeOK
  <2>2. QED
    BY <1>0, <1>12, <2>1 DEF Start, TypeOK
<1>13. CASE UNCHANGED vars
  BY <1>13 DEF vars, TypeOK
<1>14. QED
  BY <1>1, <1>2, <1>3, <1>4, <1>5, <1>6, <1>7, <1>8, <1>9, <1>10, <1>11, <1>12, <1>13 DEF Next

\* Every reachable state is well typed.
THEOREM AssignmentTypeCorrect == Spec => []TypeOK
<1>1. Init => TypeOK /\ CallsMade
  BY InitInv DEF IInv
<1>2. TypeOK /\ CallsMade /\ [Next]_vars => (TypeOK /\ CallsMade)'
  BY NextType, CallsRemain DEF CallsKept
<1>3. QED
  BY <1>1, <1>2, PTL DEF Spec

-----------------------------------------------------------------------------
(* Where an assignment comes from.                                         *)

\* A request that was made stays made.
LEMMA RequestedRemains ==
  ASSUME TypeOK, CallsMade, [Next]_vars, NEW g, NEW t, Requested(g, t)
  PROVE  Requested(g, t)'
<1>1. PICK i \in 1..count : call[i].kind = "assigned" /\ call[i].group = g /\ call[i].target = t
  BY DEF Requested
<1>2. count \in Nat /\ count \in 0..MaxCalls /\ MaxCalls \in Nat
  BY Counters DEF TypeOK
<1>3. i \in Call /\ i <= count
  BY <1>2 DEF Call
<1>4. /\ count' \in Nat /\ count <= count'
      /\ call'[i].kind = "assigned" /\ call'[i].group = g /\ call'[i].target = t
  BY <1>1, <1>2, <1>3, CallsRemain DEF CallsKept
<1>5. i \in 1..count'
  BY <1>2, <1>4
<1>6. QED
  BY <1>4, <1>5 DEF Requested

\* What a step may make of one assignment: keep it, drop it, take it from an
\* announcement, or take it from a reassign call.
AssignmentStep(n, g) ==
  \/ assignments'[n][g] \in {assignments[n][g], Nobody}
  \/ \E m \in net : m.kind = "assigned" /\ m.group = g /\ assignments'[n][g] = m.node
  \/ \E i \in Call : /\ i <= count /\ call[i].kind = "assigned"
                     /\ call[i].group = g /\ assignments'[n][g] = call[i].target

\* Every step treats every assignment in one of these ways.
LEMMA AssignmentOrigins ==
  ASSUME TypeOK, CallsMade, [Next]_vars, NEW n \in Node, NEW g \in Group
  PROVE  AssignmentStep(n, g)
<1>1. CASE UNCHANGED assignments
  BY <1>1 DEF AssignmentStep
<1>2. ASSUME NEW m \in Node, NEW h \in Group, RemoveAssignment(m, h) PROVE AssignmentStep(n, g)
  BY <1>2 DEF RemoveAssignment, AssignmentStep, TypeOK
<1>3. ASSUME NEW i \in Call, WriteAssignment(i) PROVE AssignmentStep(n, g)
  <2>1. /\ i <= count /\ call[i].kind = "assigned"
        /\ call[i].node \in Node /\ call[i].group \in Group
    BY <1>3, CallFields DEF WriteAssignment, CallsMade
  <2>2. CASE UNCHANGED assignments
    BY <2>2 DEF AssignmentStep
  <2>3. CASE assignments' = [assignments EXCEPT ![call[i].node][call[i].group] = call[i].target]
    <3>1. CASE n = call[i].node /\ g = call[i].group
      BY <2>1, <2>3, <3>1 DEF AssignmentStep, TypeOK
    <3>2. CASE ~(n = call[i].node /\ g = call[i].group)
      BY <2>1, <2>3, <3>2 DEF AssignmentStep, TypeOK
    <3>3. QED
      BY <3>1, <3>2
  <2>4. QED
    BY <1>3, <2>2, <2>3 DEF WriteAssignment
<1>4. ASSUME NEW m \in net, HandleGroupAssigned(m) PROVE AssignmentStep(n, g)
  <2>1. m \in Announcement /\ m.to \in Node /\ m.group \in Group
    BY DEF TypeOK, Announcement
  <2>2. CASE n = m.to /\ g = m.group
    BY <1>4, <2>1, <2>2 DEF HandleGroupAssigned, AssignmentStep, TypeOK
  <2>3. CASE ~(n = m.to /\ g = m.group)
    BY <1>4, <2>1, <2>3 DEF HandleGroupAssigned, AssignmentStep, TypeOK
  <2>4. QED
    BY <2>2, <2>3
<1>5. ASSUME NEW m \in net, HandleGroupUnassigned(m) PROVE AssignmentStep(n, g)
  <2>1. m \in Announcement /\ m.to \in Node /\ m.group \in Group
    BY DEF TypeOK, Announcement
  <2>2. QED
    BY <1>5, <2>1 DEF HandleGroupUnassigned, AssignmentStep, TypeOK
<1>6. ASSUME NEW m \in Node, DropAssignments(m) PROVE AssignmentStep(n, g)
  BY <1>6 DEF DropAssignments, AssignmentStep, TypeOK
<1>c. ASSUME NEW m \in Node, Crash(m) PROVE AssignmentStep(n, g)
  BY <1>c DEF Crash, AssignmentStep, TypeOK
<1>7. ASSUME ~(\E m \in Node : Crash(m)),
             ~(\E m \in Node, h \in Group : RemoveAssignment(m, h)),
             ~(\E i \in Call : WriteAssignment(i)),
             ~(\E m \in net : HandleGroupAssigned(m) \/ HandleGroupUnassigned(m)),
             ~(\E m \in Node : DropAssignments(m))
      PROVE  UNCHANGED assignments
  BY <1>7 DEF Next, vars, CheckTarget, FinishTelling, Tell, RemovePeer, Learn, Start
<1>8. QED
  BY <1>1, <1>2, <1>3, <1>4, <1>5, <1>6, <1>7, <1>c

\* Every step keeps all assignments and announcements requested.
LEMMA NextRequested ==
  TypeOK /\ CallsMade /\ AssignmentsWereRequested /\ [Next]_vars => AssignmentsWereRequested'
<1> SUFFICES ASSUME TypeOK, CallsMade, AssignmentsWereRequested, [Next]_vars
             PROVE  AssignmentsWereRequested'
  OBVIOUS
<1>a. ASSUME NEW i \in Call, i <= count, call[i].kind = "assigned"
      PROVE  Requested(call[i].group, call[i].target)
  BY <1>a, Counters DEF Requested, Call
<1>b. ASSUME NEW m \in net, m.kind = "assigned" PROVE Requested(m.group, m.node)
  BY <1>b DEF AssignmentsWereRequested
<1>1. ASSUME NEW n \in Node, NEW g \in Group, assignments'[n][g] # Nobody
      PROVE  Requested(g, assignments'[n][g])
  BY <1>1, <1>a, <1>b, AssignmentOrigins DEF AssignmentStep, AssignmentsWereRequested
<1>2. ASSUME NEW n \in Node, NEW g \in Group, assignments'[n][g] # Nobody
      PROVE  Requested(g, assignments[n][g])'
  <2> DEFINE t == assignments'[n][g]
  <2>1. Requested(g, t)
    BY <1>1, <1>2
  <2>2. \E i \in 1..count' : /\ call'[i].kind = "assigned"
                            /\ call'[i].group = g
                            /\ call'[i].target = t
    <3> HIDE DEF t
    <3>1. QED
      BY <2>1, RequestedRemains DEF Requested
  <2>3. QED
    BY <2>2 DEF Requested
<1>3. ASSUME NEW m \in net', m.kind = "assigned" PROVE Requested(m.group, m.node)'
  <2>1. Requested(m.group, m.node)
    <3>1. CASE m \in net
      BY <1>3, <1>b, <3>1
    <3>2. CASE m \notin net
      <4>1. PICK i \in Call, p \in Node : Tell(i, p)
        BY <3>2 DEF Next, vars, RemoveAssignment, CheckTarget, WriteAssignment, FinishTelling,
                    HandleGroupAssigned, HandleGroupUnassigned, DropAssignments, RemovePeer,
                    Learn, Crash, Start
      <4>2. m = [id |-> i, to |-> p, kind |-> call[i].kind, group |-> call[i].group,
                 node |-> call[i].target]
        BY <3>2, <4>1 DEF Tell
      <4>3. QED
        BY <1>3, <1>a, <4>1, <4>2 DEF Tell
    <3>3. QED
      BY <3>1, <3>2
  <2>2. QED
    BY <2>1, RequestedRemains
<1>4. QED
  BY <1>2, <1>3 DEF AssignmentsWereRequested

\* No node ever holds, and no message ever announces, an assignment that
\* nobody asked for.
THEOREM AssignmentsRequested == Spec => []AssignmentsWereRequested
<1>1. IInv /\ [Next]_vars => IInv'
  BY NextType, NextRequested, CallsRemain DEF IInv, CallsKept
<1>2. IInv => AssignmentsWereRequested
  BY DEF IInv
<1>3. QED
  BY InitInv, <1>1, <1>2, PTL DEF Spec

-----------------------------------------------------------------------------
(* Agreement of the nodes when calls come one at a time.                   *)

\* Calls come one at a time in a cluster that loses nothing.
Undisturbed == Calm /\ ~Lossy /\ MaxFaults = 0

\* Everybody knows everybody else, and no peer is being removed.
FullMesh ==
  /\ running = Node
  /\ view = [n \in Node |-> [p \in Node |-> IF p = n THEN "absent" ELSE "full"]]
  /\ \A n \in Node : sweeping[n] = Nobody

\* What call i makes of its group.
Result(i) == IF call[i].kind = "assigned" THEN call[i].target ELSE Nobody

\* The announcement of call i to p.
News(i, p) == [id |-> i, to |-> p, kind |-> call[i].kind, group |-> call[i].group,
               node |-> call[i].target]

\* p has yet to hear of the last call.
Awaits(p) ==
  \/ News(count, p) \in net
  \/ call[count].step = "telling" /\ p \notin told[count] \cup {call[count].node}

Agreed == \A n, m \in Node : assignments[n] = assignments[m]

\* Only the last call is under way, it tells nobody before it has written its
\* own table, every message is its announcement, and it has yet to come to all
\* that it has not told.
OneCall ==
  /\ \A i \in 1..count : i # count => call[i].step = "done"
  /\ \A i \in Call : i > count \/ call[i].step = "checked" => told[i] = {}
  /\ \A m \in net : count > 0 /\ \E p \in Node : m = News(count, p)
  /\ count > 0 /\ call[count].step = "telling"
       => due[count] = Node \ (told[count] \cup {call[count].node})

\* Before the last call has written anything all nodes agree.  From then on
\* they agree on all other groups, and on its group all hold the result but
\* those that have yet to hear of it.
LastCallSpreads ==
  IF count = 0 \/ call[count].step = "checked"
  THEN net = {} /\ Agreed
  ELSE /\ \A n, m \in Node, g \in Group \ {call[count].group} :
            assignments[n][g] = assignments[m][g]
       /\ \A p \in Node : /\ \/ assignments[p][call[count].group] = Result(count)
                             \/ Awaits(p)
                          /\ call[count].kind = "unassigned" =>
                               assignments[p][call[count].group] \in {call[count].target, Nobody}

CalmInv == FullMesh /\ OneCall /\ LastCallSpreads

\* Without faults nodes neither stop nor forget each other, and only calls and
\* announcements are left to take steps.
LEMMA OnlyCalls ==
  ASSUME Undisturbed, TypeOK, FullMesh, [Next]_vars
  PROVE  /\ FullMesh'
         /\ \/ \E n \in Node, g \in Group : RemoveAssignment(n, g)
            \/ \E n \in Node, g \in Group, t \in Node : CheckTarget(n, g, t)
            \/ \E i \in Call : WriteAssignment(i)
            \/ \E i \in Call : FinishTelling(i)
            \/ \E i \in Call, p \in Node : Tell(i, p)
            \/ \E m \in net : HandleGroupAssigned(m)
            \/ \E m \in net : HandleGroupUnassigned(m)
            \/ UNCHANGED vars
<1>1. ~Fault
  BY DEF Undisturbed, TypeOK, Fault
<1>2. ASSUME NEW n \in Node PROVE ~Crash(n) /\ ~Start(n) /\ ~DropAssignments(n)
  BY <1>1 DEF FullMesh, Crash, Start, Peers!Start, DropAssignments
<1>3. ASSUME NEW n \in Node, NEW p \in Node PROVE ~RemovePeer(n, p)
  BY <1>1 DEF RemovePeer
<1>4. ASSUME NEW n \in Node, NEW p \in Node, NEW entry \in {"bare", "heard", "full"}, Learn(n, p, entry)
      PROVE  FALSE
  <2>1. CASE p = n
    <3>1. [view[n] EXCEPT ![p] = entry][n] = entry
      BY <2>1 DEF TypeOK
    <3>2. QED
      BY <1>4, <3>1 DEF Learn, Peers!Learn
  <2>2. CASE p # n
    BY <1>1, <1>4, <2>2 DEF Learn, FullMesh
  <2>3. QED
    BY <2>1, <2>2
<1>5. /\ \/ \E n \in Node, g \in Group : RemoveAssignment(n, g)
         \/ \E n \in Node, g \in Group, t \in Node : CheckTarget(n, g, t)
         \/ \E i \in Call : WriteAssignment(i)
         \/ \E i \in Call : FinishTelling(i)
         \/ \E i \in Call, p \in Node : Tell(i, p)
         \/ \E m \in net : HandleGroupAssigned(m)
         \/ \E m \in net : HandleGroupUnassigned(m)
         \/ UNCHANGED vars
  BY <1>2, <1>3, <1>4 DEF Next
<1>6. UNCHANGED <<running, view, sweeping>>
  BY <1>5 DEF table, vars, RemoveAssignment, CheckTarget, WriteAssignment, FinishTelling, Tell,
              HandleGroupAssigned, HandleGroupUnassigned
<1>7. FullMesh'
  BY <1>6 DEF FullMesh
<1>8. QED
  BY <1>5, <1>7

\* Once everything is handled the nodes agree.
LEMMA QuietAgrees ==
  ASSUME TypeOK, CallsMade, LastCallSpreads, Quiet
  PROVE  Agreed
<1>1. count \in Nat /\ MaxCalls \in Nat /\ count <= MaxCalls
  BY Counters DEF TypeOK
<1>2. CASE count = 0
  BY <1>2 DEF LastCallSpreads
<1>3. CASE count # 0
  <2>1. call[count].step = "done" /\ net = {}
    BY <1>1, <1>3 DEF Quiet
  <2>2. \A p \in Node : ~Awaits(p)
    BY <2>1 DEF Awaits
  <2>3. /\ \A p \in Node : assignments[p][call[count].group] = Result(count)
        /\ \A n, m \in Node, g \in Group \ {call[count].group} :
             assignments[n][g] = assignments[m][g]
    BY <1>3, <2>1, <2>2 DEF LastCallSpreads
  <2>4. ASSUME NEW n \in Node, NEW m \in Node PROVE assignments[n] = assignments[m]
    <3>1. \A g \in Group : assignments[n][g] = assignments[m][g]
      BY <2>3
    <3>2. /\ assignments[n] \in [Group -> Node \cup {Nobody}]
          /\ assignments[m] \in [Group -> Node \cup {Nobody}]
      BY DEF TypeOK
    <3>3. QED
      BY <3>1, <3>2
  <2>5. QED
    BY <2>4 DEF Agreed
<1>4. QED
  BY <1>2, <1>3

\* A call that is not done is the last one.
LEMMA UnderWayIsLast ==
  ASSUME TypeOK, OneCall, NEW i \in Call, i <= count, call[i].step # "done"
  PROVE  i = count /\ count # 0
  BY Counters DEF OneCall, Call

\* A new call finds all nodes in agreement.
LEMMA NextCalm ==
  ASSUME Undisturbed, TypeOK, CallsMade, CalmInv, [Next]_vars
  PROVE  CalmInv'
<1>0. /\ count \in Nat /\ MaxCalls \in Nat /\ count <= MaxCalls
      /\ FullMesh /\ OneCall /\ LastCallSpreads
      /\ assignments \in [Node -> [Group -> Node \cup {Nobody}]]
      /\ call \in [Call -> CallRecord \cup {NoCall}]
      /\ told \in [Call -> SUBSET Node] /\ due \in [Call -> SUBSET Node]
      /\ \A n \in Node : Known(n) = Node \ {n}
  <2>1. CalmInv => \A n \in Node : Known(n) = Node \ {n}
    BY DEF CalmInv, FullMesh, Known
  <2>2. QED
    BY <2>1, Counters DEF TypeOK, CalmInv
<1>a. ASSUME NEW i \in 1..count PROVE i \in Call
  BY <1>0, <1>a DEF Call
<1>1. ASSUME NEW n \in Node, NEW g \in Group, NEW t \in Node,
             NEW kind \in {"assigned", "unassigned"}, NEW step \in {"checked", "telling"},
             Accept(n, kind, g, t, step), UNCHANGED <<told, net>>,
             step = "telling" => due' = [due EXCEPT ![count + 1] = Known(n)]
      PROVE  /\ count' = count + 1 /\ count + 1 \in Call /\ net = {} /\ Agreed
             /\ call'[count + 1] = [node |-> n, kind |-> kind, group |-> g, target |-> t,
                                    step |-> step]
             /\ told'[count + 1] = {}
             /\ OneCall'
  <2>1. Quiet
    BY <1>1 DEF Accept, Undisturbed
  <2>2. Agreed /\ net = {}
    BY <1>0, <2>1, QuietAgrees DEF Quiet
  <2>3. /\ count' = count + 1 /\ count + 1 \in Call
        /\ call' = [call EXCEPT ![count + 1] =
                      [node |-> n, kind |-> kind, group |-> g, target |-> t, step |-> step]]
    BY <1>0, <1>1 DEF Accept, Call
  <2>4. /\ call'[count + 1] = [node |-> n, kind |-> kind, group |-> g, target |-> t,
                               step |-> step]
        /\ \A i \in 1..count : call'[i] = call[i]
    BY <1>0, <1>a, <2>3
  <2>5. \A i \in 1..count' : i # count' => call'[i].step = "done"
    BY <1>0, <2>1, <2>3, <2>4 DEF Quiet
  <2>6. \A i \in Call : i > count => told'[i] = {}
    BY <1>0, <1>1 DEF OneCall
  <2>7. ASSUME NEW i \in Call, i <= count PROVE call'[i].step # "checked"
    BY <1>0, <2>1, <2>4, <2>7 DEF Quiet, Call
  <2>8. OneCall'
    <3>1. call'[count'].step = "telling"
            => due'[count'] = Node \ (told'[count'] \cup {call'[count'].node})
      BY <1>0, <1>1, <2>3, <2>4, <2>6
    <3>2. QED
      BY <1>0, <1>1, <2>2, <2>3, <2>5, <2>6, <2>7, <3>1 DEF OneCall, Call
  <2>9. QED
    BY <1>0, <2>2, <2>3, <2>4, <2>6, <2>8
<1>2. ASSUME NEW n \in Node, NEW g \in Group, RemoveAssignment(n, g)
      PROVE  OneCall' /\ LastCallSpreads'
  <2> DEFINE t == assignments[n][g]
  <2>1. t \in Node /\ Accept(n, "unassigned", g, t, "telling") /\ UNCHANGED <<told, net>>
        /\ due' = [due EXCEPT ![count + 1] = Known(n)]
    BY <1>0, <1>2 DEF RemoveAssignment
  <2>2. /\ count' = count + 1 /\ Agreed /\ OneCall'
        /\ call'[count + 1] = [node |-> n, kind |-> "unassigned", group |-> g, target |-> t,
                               step |-> "telling"]
        /\ told'[count + 1] = {}
    <3> HIDE DEF t
    <3>1. QED
      BY <1>1, <2>1
  <2>3. /\ call'[count'].step = "telling" /\ call'[count'].kind = "unassigned"
        /\ call'[count'].group = g /\ call'[count'].target = t /\ call'[count'].node = n
        /\ count' # 0 /\ Result(count)' = Nobody
    BY <1>0, <2>2 DEF Result
  <2>4. assignments' = [assignments EXCEPT ![n][g] = Nobody]
    BY <1>2 DEF RemoveAssignment
  <2>5. ASSUME NEW p \in Node
        PROVE  /\ assignments'[p][g] = Nobody \/ Awaits(p)'
               /\ assignments'[p][g] \in {t, Nobody}
    <3>1. CASE p = n
      BY <1>0, <2>4, <3>1
    <3>2. CASE p # n
      <4>1. assignments'[p][g] = t
        BY <1>0, <2>2, <2>4, <3>2 DEF Agreed
      <4>2. Awaits(p)'
        BY <2>2, <2>3, <3>2 DEF Awaits
      <4>3. QED
        BY <4>1, <4>2
    <3>3. QED
      BY <3>1, <3>2
  <2>6. \A q, r \in Node, h \in Group \ {g} : assignments'[q][h] = assignments'[r][h]
    BY <1>0, <2>2, <2>4 DEF Agreed
  <2>7. LastCallSpreads'
    <3> HIDE DEF t
    <3>1. QED
      BY <2>3, <2>5, <2>6 DEF LastCallSpreads
  <2>8. QED
    BY <2>2, <2>7
<1>3. ASSUME NEW n \in Node, NEW g \in Group, NEW t \in Node, CheckTarget(n, g, t)
      PROVE  OneCall' /\ LastCallSpreads'
  <2>1. Accept(n, "assigned", g, t, "checked") /\ UNCHANGED <<told, net, assignments>>
    BY <1>3 DEF CheckTarget
  <2>2. /\ OneCall' /\ Agreed /\ net = {} /\ count' = count + 1
        /\ call'[count + 1] = [node |-> n, kind |-> "assigned", group |-> g, target |-> t,
                               step |-> "checked"]
    BY <1>1, <2>1
  <2>3. call'[count'].step = "checked"
    BY <2>2
  <2>4. QED
    BY <2>1, <2>2, <2>3 DEF LastCallSpreads, Agreed
<1>4. ASSUME NEW i \in Call, WriteAssignment(i) PROVE OneCall' /\ LastCallSpreads'
  <2>1. i = count /\ count # 0 /\ call[i].step = "checked"
    BY <1>0, <1>4, UnderWayIsLast DEF WriteAssignment
  <2>2. /\ net = {} /\ Agreed /\ UNCHANGED <<told, net, count>>
        /\ call[i].kind = "assigned" /\ call[i] \in CallRecord
        /\ call[i].node \in Node /\ call[i].group \in Group
    BY <1>0, <1>4, <2>1, CallFields DEF LastCallSpreads, WriteAssignment, CallsMade
  <2>3. PICK step \in {"telling", "done"} :
          /\ call' = [call EXCEPT ![i].step = step]
          /\ step = "done" => /\ assignments[call[i].node][call[i].group] = call[i].target
                              /\ UNCHANGED assignments
          /\ step = "telling" => assignments' =
               [assignments EXCEPT ![call[i].node][call[i].group] = call[i].target]
          /\ step = "telling" => due' = [due EXCEPT ![i] = Known(call[i].node)]
    BY <1>4 DEF WriteAssignment
  <2>4. /\ call'[i].step = step /\ call'[i].kind = "assigned" /\ call'[i].node = call[i].node
        /\ call'[i].group = call[i].group /\ call'[i].target = call[i].target
        /\ \A j \in Call : j # i => call'[j] = call[j]
    BY <1>0, <2>2, <2>3 DEF CallRecord
  <2>5. OneCall'
    <3>1. step = "telling" => due'[i] = Node \ (told'[i] \cup {call'[i].node})
      BY <1>0, <2>1, <2>2, <2>3, <2>4 DEF OneCall
    <3>2. QED
      BY <1>0, <1>a, <2>1, <2>2, <2>4, <3>1 DEF OneCall
  <2>6. Result(count)' = call[i].target
    BY <2>1, <2>2, <2>4 DEF Result
  <2>7. \A n, m \in Node, g \in Group \ {call[i].group} : assignments'[n][g] = assignments'[m][g]
    BY <1>0, <2>2, <2>3 DEF Agreed
  <2>8. ASSUME NEW p \in Node
        PROVE  assignments'[p][call[i].group] = call[i].target \/ Awaits(p)'
    <3>1. CASE step = "done"
      BY <2>2, <2>3, <3>1 DEF Agreed
    <3>2. CASE step = "telling" /\ p = call[i].node
      BY <1>0, <2>2, <2>3, <3>2
    <3>3. CASE step = "telling" /\ p # call[i].node
      <4>1. told[i] = {}
        BY <1>0, <2>1 DEF OneCall
      <4>2. QED
        BY <2>1, <2>2, <2>4, <3>3, <4>1 DEF Awaits
    <3>4. QED
      BY <3>1, <3>2, <3>3
  <2>9. QED
    BY <2>1, <2>2, <2>4, <2>5, <2>6, <2>7, <2>8 DEF LastCallSpreads
<1>b. ASSUME count # 0
      PROVE  /\ count \in Call /\ call[count] \in CallRecord
             /\ call[count].node \in Node /\ call[count].group \in Group
             /\ call[count].target \in Node /\ call[count].kind \in {"assigned", "unassigned"}
  <2>1. count \in Call
    BY <1>0, <1>b DEF Call
  <2>2. QED
    BY <1>0, <2>1, CallFields
<1>5. ASSUME NEW i \in Call, FinishTelling(i) PROVE OneCall' /\ LastCallSpreads'
  <2>1. i = count /\ count # 0 /\ call[i].step = "telling" /\ call[i] \in CallRecord
    BY <1>0, <1>5, <1>b, UnderWayIsLast DEF FinishTelling
  <2>2. /\ UNCHANGED <<told, net, count, assignments>>
        /\ call' = [call EXCEPT ![i].step = "done"]
        /\ due[i] = {}
    BY <1>5 DEF FinishTelling
  <2>3. /\ call'[i].step = "done" /\ call'[i].kind = call[i].kind /\ call'[i].node = call[i].node
        /\ call'[i].group = call[i].group /\ call'[i].target = call[i].target
        /\ \A j \in Call : j # i => call'[j] = call[j]
    BY <1>0, <2>1, <2>2 DEF CallRecord
  <2>4. \A p \in Node : News(count, p)' = News(count, p)
    BY <2>1, <2>2, <2>3 DEF News
  <2>5. OneCall'
    BY <1>0, <1>a, <2>1, <2>2, <2>3, <2>4 DEF OneCall
  <2>6. ASSUME NEW p \in Node, Awaits(p), p # call[i].node PROVE Awaits(p)'
    <3>1. p \in told[i]
      BY <1>0, <2>1, <2>2, <2>6 DEF OneCall
    <3>2. News(count, p) \in net
      BY <2>1, <2>6, <3>1 DEF Awaits
    <3>3. QED
      BY <2>2, <2>4, <3>2 DEF Awaits
  <2>7. ASSUME NEW p \in Node, Awaits(p), p = call[i].node PROVE Awaits(p)'
    <3>1. News(count, p) \in net
      BY <2>1, <2>7 DEF Awaits
    <3>2. QED
      BY <2>2, <2>4, <3>1 DEF Awaits
  <2>8. Result(count)' = Result(count)
    BY <2>1, <2>2, <2>3 DEF Result
  <2>9. QED
    BY <1>0, <2>1, <2>2, <2>3, <2>5, <2>6, <2>7, <2>8 DEF LastCallSpreads
<1>6. ASSUME NEW i \in Call, NEW p \in Node, Tell(i, p) PROVE OneCall' /\ LastCallSpreads'
  <2>1. i = count /\ count # 0 /\ call[i].step = "telling" /\ call[i].node \in Node
    BY <1>0, <1>6, <1>b, UnderWayIsLast DEF Tell
  <2>2. /\ UNCHANGED <<call, count, assignments>>
        /\ told' = [told EXCEPT ![i] = told[i] \cup {p}]
        /\ due' = [due EXCEPT ![i] = due[i] \ {p}]
    BY <1>6 DEF Tell
  <2>3. net' = net \cup {News(count, p)}
    <3>1. p # call[i].node /\ view[call[i].node][p] = "full" /\ p \in running
      BY <1>0, <1>6, <2>1 DEF Tell, Known, FullMesh
    <3>2. QED
      BY <1>6, <2>1, <3>1 DEF Tell, Undisturbed, News
  <2>4. \A q \in Node : News(count, q)' = News(count, q)
    BY <2>2 DEF News
  <2>5. OneCall'
    <3>1. due'[count] = Node \ (told'[count] \cup {call[count].node})
      <4>1. due[count] = Node \ (told[count] \cup {call[count].node})
        BY <1>0, <2>1 DEF OneCall
      <4>2. QED
        BY <1>0, <2>1, <2>2, <4>1
    <3>2. QED
      BY <1>0, <2>1, <2>2, <2>3, <2>4, <3>1 DEF OneCall
  <2>6. ASSUME NEW q \in Node, Awaits(q) PROVE Awaits(q)'
    BY <1>0, <2>1, <2>2, <2>3, <2>4, <2>6 DEF Awaits
  <2>7. Result(count)' = Result(count)
    BY <2>2 DEF Result
  <2>8. QED
    BY <1>0, <2>1, <2>2, <2>5, <2>6, <2>7 DEF LastCallSpreads
<1>7. ASSUME NEW m \in net, NEW p \in Node, m = News(count, p), net' = net \ {m},
             UNCHANGED <<call, count, told, due>>, count # 0
      PROVE  /\ OneCall'
             /\ \A q \in Node : q # p /\ Awaits(q) => Awaits(q)'
             /\ call[count].step # "checked"
  <2>1. \A q \in Node : News(count, q)' = News(count, q)
    BY <1>7 DEF News
  <2>2. OneCall'
    BY <1>0, <1>7, <2>1 DEF OneCall
  <2>3. ASSUME NEW q \in Node, q # p, Awaits(q) PROVE Awaits(q)'
    <3>1. News(count, q) # m
      BY <1>7, <2>3 DEF News
    <3>2. QED
      BY <1>7, <2>1, <2>3, <3>1 DEF Awaits
  <2>4. QED
    BY <1>0, <1>7, <2>2, <2>3 DEF LastCallSpreads
<1>8. ASSUME NEW m \in net, HandleGroupAssigned(m) PROVE OneCall' /\ LastCallSpreads'
  <2>1. PICK p \in Node : m = News(count, p)
    BY <1>0 DEF OneCall
  <2>2. /\ count # 0 /\ net' = net \ {m} /\ UNCHANGED <<call, count, told, due>>
        /\ call[count].kind = "assigned"
        /\ assignments' = [assignments EXCEPT ![p][call[count].group] = call[count].target]
    BY <1>0, <1>8, <2>1 DEF OneCall, HandleGroupAssigned, News
  <2>3. /\ OneCall' /\ call[count].step # "checked"
        /\ \A q \in Node : q # p /\ Awaits(q) => Awaits(q)'
    BY <1>7, <2>1, <2>2
  <2>4. Result(count) = call[count].target /\ Result(count)' = Result(count)
    BY <2>2 DEF Result
  <2>5. ASSUME NEW q \in Node
        PROVE  assignments'[q][call[count].group] = Result(count) \/ Awaits(q)'
    <3>1. CASE q = p
      BY <1>0, <1>b, <2>2, <2>4, <3>1
    <3>2. CASE q # p
      <4>1. assignments'[q][call[count].group] = assignments[q][call[count].group]
        BY <1>0, <1>b, <2>2, <3>2
      <4>2. QED
        BY <1>0, <2>2, <2>3, <3>2, <4>1 DEF LastCallSpreads
    <3>3. QED
      BY <3>1, <3>2
  <2>6. \A q, r \in Node, g \in Group \ {call[count].group} : assignments'[q][g] = assignments'[r][g]
    <3>1. \A q \in Node, g \in Group \ {call[count].group} : assignments'[q][g] = assignments[q][g]
      BY <1>0, <1>b, <2>2
    <3>2. QED
      BY <1>0, <2>2, <2>3, <3>1 DEF LastCallSpreads
  <2>7. QED
    BY <2>2, <2>3, <2>4, <2>5, <2>6 DEF LastCallSpreads
<1>9. ASSUME NEW m \in net, HandleGroupUnassigned(m) PROVE OneCall' /\ LastCallSpreads'
  <2>1. PICK p \in Node : m = News(count, p)
    BY <1>0 DEF OneCall
  <2> DEFINE g == call[count].group
             t == call[count].target
  <2>2. /\ count # 0 /\ net' = net \ {m} /\ UNCHANGED <<call, count, told, due>>
        /\ call[count].kind = "unassigned"
        /\ assignments' = [assignments EXCEPT ![p][g] =
                             IF assignments[p][g] = t THEN Nobody ELSE assignments[p][g]]
    BY <1>0, <1>9, <2>1 DEF OneCall, HandleGroupUnassigned, News
  <2>3. /\ OneCall' /\ call[count].step # "checked"
        /\ \A q \in Node : q # p /\ Awaits(q) => Awaits(q)'
    BY <1>7, <2>1, <2>2
  <2>4. Result(count) = Nobody /\ Result(count)' = Nobody
    BY <2>2 DEF Result
  <2>5. ASSUME NEW q \in Node
        PROVE  /\ assignments'[q][g] = Nobody \/ Awaits(q)'
               /\ assignments'[q][g] \in {t, Nobody}
    <3>1. assignments[q][g] \in {t, Nobody} /\ (assignments[q][g] = Nobody \/ Awaits(q))
      BY <1>0, <2>2, <2>3, <2>4 DEF LastCallSpreads
    <3>2. CASE q = p
      BY <1>0, <1>b, <2>2, <3>1, <3>2
    <3>3. CASE q # p
      <4>1. assignments'[q][g] = assignments[q][g]
        BY <1>0, <1>b, <2>2, <3>3
      <4>2. QED
        BY <2>3, <3>1, <3>3, <4>1
    <3>4. QED
      BY <3>2, <3>3
  <2>6. \A q, r \in Node, h \in Group \ {g} : assignments'[q][h] = assignments'[r][h]
    <3>1. \A q \in Node, h \in Group \ {g} : assignments'[q][h] = assignments[q][h]
      BY <1>0, <1>b, <2>2
    <3>2. QED
      BY <1>0, <2>2, <2>3, <3>1 DEF LastCallSpreads
  <2>7. QED
    BY <2>2, <2>3, <2>4, <2>5, <2>6 DEF LastCallSpreads
<1>10. ASSUME UNCHANGED vars PROVE OneCall' /\ LastCallSpreads'
  <2>1. UNCHANGED <<call, count, told, due, net, assignments>>
    BY <1>10 DEF vars
  <2>2. OneCall'
    BY <1>0, <2>1 DEF OneCall, News
  <2>3. \A p \in Node : Awaits(p)' = Awaits(p)
    BY <2>1 DEF Awaits, News
  <2>4. QED
    BY <1>0, <2>1, <2>2, <2>3 DEF LastCallSpreads, Result, Agreed
<1>11. FullMesh' /\ OneCall' /\ LastCallSpreads'
  BY <1>0, <1>2, <1>3, <1>4, <1>5, <1>6, <1>8, <1>9, <1>10, OnlyCalls
<1>12. QED
  BY <1>11 DEF CalmInv

\* The initial cluster is a full mesh without assignments.
LEMMA InitCalm == Init => CalmInv
<1> SUFFICES ASSUME Init PROVE CalmInv
  OBVIOUS
<1>1. FullMesh
  BY DEF Init, FullMesh
<1>2. OneCall
  BY AssignmentAssumption DEF Init, OneCall, Call
<1>3. LastCallSpreads
  BY DEF Init, LastCallSpreads, Agreed
<1>4. QED
  BY <1>1, <1>2, <1>3 DEF CalmInv

\* If calls come one at a time and nothing is lost, the nodes agree whenever
\* everything is handled.  None of the three parts of Undisturbed can be
\* dropped: crossing calls, a lost announcement and a restart each leave the
\* tables different for good.
THEOREM QuietNodesAgree ==
  ASSUME Undisturbed
  PROVE  Spec => []AgreedWhenQuiet
<1>1. IInv /\ CalmInv /\ [Next]_vars => IInv' /\ CalmInv'
  BY NextType, NextRequested, CallsRemain, NextCalm DEF IInv, CallsKept
<1>2. IInv /\ CalmInv => AgreedWhenQuiet
  BY QuietAgrees DEF IInv, CalmInv, AgreedWhenQuiet, Agreed
<1>3. QED
  BY InitInv, InitCalm, <1>1, <1>2, PTL DEF Spec

-----------------------------------------------------------------------------
(* Looking groups up.                                                      *)

\* No group is configured on two nodes.
Disjoint ==
  \A n, m \in Node : n # m => AssignedGroups[n] \cap AssignedGroups[m] = {}

\* With agreed tables and full entries all nodes list the same owner: nobody
\* has an entry of its own, so that each finds the owner among the others or,
\* if it is the owner, falls back on itself.
LEMMA AgreedListings ==
  ASSUME Disjoint, TypeOK, Agreed, NEW n \in Node, NEW m \in Node, NEW g \in Group,
         \A p, q \in Node : view[p][q] = IF p = q THEN "absent" ELSE "full"
  PROVE  GetGroupAssignment(n, g) = GetGroupAssignment(m, g)
<1> DEFINE Owners == {p \in Node : g \in AssignedGroups[p]}
<1>1. assignments[n][g] = assignments[m][g]
  BY DEF Agreed
<1>2. ASSUME NEW r \in Node, assignments[r][g] = Nobody
      PROVE  GetGroupAssignment(r, g) = Owners
  <2>1. Known(r) = Node \ {r}
    BY DEF Known
  <2>2. \A p \in Known(r) : PeerGroups(r, p) = AssignedGroups[p]
    BY <2>1 DEF PeerGroups
  <2>3. CASE \E p \in Node \ {r} : g \in AssignedGroups[p]
    <3>1. g \notin AssignedGroups[r]
      BY <2>3 DEF Disjoint
    <3>2. {p \in Known(r) : g \in PeerGroups(r, p)} = Owners
      BY <2>1, <2>2, <3>1
    <3>3. \E p \in Known(r) : g \in PeerGroups(r, p)
      BY <2>1, <2>2, <2>3
    <3>4. QED
      BY <1>2, <3>2, <3>3 DEF GetGroupAssignment
  <2>4. CASE ~(\E p \in Node \ {r} : g \in AssignedGroups[p])
    <3>1. {p \in {r} : g \in AssignedGroups[p]} = Owners
      BY <2>4
    <3>2. ~(\E p \in Known(r) : g \in PeerGroups(r, p))
      BY <2>1, <2>2, <2>4
    <3>3. QED
      BY <1>2, <3>1, <3>2 DEF GetGroupAssignment
  <2>5. QED
    BY <2>3, <2>4
<1>3. CASE assignments[n][g] = Nobody
  BY <1>1, <1>2, <1>3
<1>4. CASE assignments[n][g] # Nobody
  BY <1>1, <1>4 DEF GetGroupAssignment
<1>5. QED
  BY <1>3, <1>4

\* If no group is configured twice, then whenever everything is handled all
\* nodes list the same owner for every group.
THEOREM QuietListingsAgree ==
  ASSUME Undisturbed, Disjoint
  PROVE  Spec => []ListingsAgree
<1>1. IInv /\ CalmInv /\ [Next]_vars => IInv' /\ CalmInv'
  BY NextType, NextRequested, CallsRemain, NextCalm DEF IInv, CallsKept
<1>2. ASSUME IInv, CalmInv PROVE ListingsAgree
  <2>1. Quiet => Agreed
    BY <1>2, QuietAgrees DEF IInv, CalmInv
  <2>2. \A p, q \in Node : view[p][q] = IF p = q THEN "absent" ELSE "full"
    BY <1>2 DEF CalmInv, FullMesh
  <2>3. QED
    BY <1>2, <2>1, <2>2, AgreedListings DEF ListingsAgree, IInv
<1>3. QED
  BY InitInv, InitCalm, <1>1, <1>2, PTL DEF Spec

\* No table names its own node.
NoOwnEntry == \A n \in Node : view[n][n] = "absent"

\* The first tables name all other nodes.
LEMMA InitNoOwnEntry == Init => NoOwnEntry
<1> SUFFICES ASSUME Init, NEW n \in Node PROVE view[n][n] = "absent"
  BY DEF NoOwnEntry
<1>1. view = [m \in Node |-> [p \in Node |-> IF p = m THEN "absent" ELSE "full"]]
  BY DEF Init
<1>2. QED
  BY <1>1

\* No step makes a table name its own node.
LEMMA NextNoOwnEntry == TypeOK /\ NoOwnEntry /\ [Next]_vars => NoOwnEntry'
<1> SUFFICES ASSUME TypeOK, NoOwnEntry, [Next]_vars, NEW n \in Node
             PROVE  view'[n][n] = "absent"
  BY DEF NoOwnEntry
<1>1. view \in [Node -> [Node -> Peers!Knowledge]] /\ view[n][n] = "absent"
  BY DEF TypeOK, NoOwnEntry
<1>2. ASSUME NEW m \in Node, Crash(m) \/ Start(m) PROVE view'[n][n] = "absent"
  BY <1>1, <1>2 DEF Crash, Start, Peers!Stop, Peers!Start, Peers!Empty
<1>3. ASSUME NEW m \in Node, NEW p \in Node, RemovePeer(m, p) PROVE view'[n][n] = "absent"
  BY <1>1, <1>3 DEF RemovePeer, Peers!Forget
<1>4. ASSUME NEW m \in Node, NEW p \in Node, NEW entry \in {"bare", "heard", "full"}, Learn(m, p, entry)
      PROVE  view'[n][n] = "absent"
  BY <1>1, <1>4 DEF Learn, Peers!Learn
<1>5. ASSUME ~(\E m \in Node : Crash(m) \/ Start(m)),
             ~(\E m, p \in Node : RemovePeer(m, p)),
             ~(\E m, p \in Node, entry \in {"bare", "heard", "full"} : Learn(m, p, entry))
      PROVE  view' = view
  BY <1>5 DEF Next, vars, table, RemoveAssignment, CheckTarget, WriteAssignment,
              FinishTelling, Tell, HandleGroupAssigned, HandleGroupUnassigned, DropAssignments
<1>6. QED
  BY <1>1, <1>2, <1>3, <1>4, <1>5

\* If every node is configured with groups, then wherever the groups of all
\* nodes are known the caller of find_node_for_group gets what the listing shows, whatever
\* calls, stops and losses there have been.
THEOREM LookupsAlwaysAgree ==
  ASSUME \A n \in Node : AssignedGroups[n] # {}
  PROVE  Spec => []LookupsAgree
<1>1. ASSUME TypeOK, NoOwnEntry, NEW n \in Node, NEW g \in Group,
             \A p \in Node \ {n} : view[n][p] \in {"heard", "full"},
             ~HandlesGroup(AssignedGroups[n], g), assignments[n][g] # n
      PROVE  FindNodeForGroup(n, g) = GetGroupAssignment(n, g)
  <2>1. assignments[n][g] \in Node \cup {Nobody} /\ Nobody \notin Known(n)
        /\ Node \ {n} \subseteq Known(n)
    BY <1>1, AssignmentAssumption DEF TypeOK, Known
  <2>2. CASE assignments[n][g] # Nobody
    <3>1. assignments[n][g] \in Known(n)
      BY <1>1, <2>1, <2>2
    <3>2. QED
      BY <1>1, <2>2, <3>1 DEF FindNodeForGroup, GetGroupAssignment
  <2>3. CASE assignments[n][g] = Nobody
    <3>1. g \notin AssignedGroups[n]
      BY <1>1 DEF HandlesGroup
    <3>2. ASSUME NEW p \in Known(n)
          PROVE  HandlesGroup(PeerGroups(n, p), g) <=> g \in PeerGroups(n, p)
      <4>1. p \in Node /\ view[n][p] \in {"heard", "full"}
        BY <1>1 DEF NoOwnEntry, Known
      <4>2. QED
        BY <4>1 DEF HandlesGroup, PeerGroups
    <3>3. QED
      BY <1>1, <2>1, <2>3, <3>1, <3>2 DEF FindNodeForGroup, GetGroupAssignment
  <2>4. QED
    BY <2>2, <2>3
<1>2. TypeOK /\ NoOwnEntry => LookupsAgree
  BY <1>1 DEF LookupsAgree, GroupsKnown
<1>3. QED
  BY <1>2, InitNoOwnEntry, NextNoOwnEntry, AssignmentTypeCorrect, PTL DEF Spec
=============================================================================
