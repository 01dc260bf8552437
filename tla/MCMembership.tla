---------------------------- MODULE MCMembership ----------------------------
(* Small clusters for Membership.                                          *)
EXTENDS Membership, TLC

\* scripts/start-cluster.sh: every node lists all others as static peers.
FullMesh == [n \in Node |-> Node \ {n}]

\* Every node is configured with one group of its own, named like the node so
\* that renaming nodes renames groups with them (which keeps Symmetry sound).
OwnGroup == [n \in Node |-> {n}]

\* Bind address naming the interface, and the README's 0.0.0.0.
DirectAddr == [n \in Node |-> n]
WildcardAddr == [n \in Node |-> Wildcard]

Symmetry == Permutations(Node)
=============================================================================
