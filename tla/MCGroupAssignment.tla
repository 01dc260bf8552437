-------------------------- MODULE MCGroupAssignment --------------------------
(* Small clusters for GroupAssignment.                                     *)
EXTENDS GroupAssignment, TLC

\* A node without assigned groups handles all of them.
HandlesAll == [n \in Node |-> {}]

\* Every group is configured on one node, and every node has one if there are
\* enough groups.
Owner == CHOOSE f \in [Group -> Node] :
           \A n \in Node : \E g \in Group : f[g] = n
OneOwner == [n \in Node |-> {g \in Group : Owner[g] = n}]

Symmetry == Permutations(Node)
=============================================================================
