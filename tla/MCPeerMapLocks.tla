--------------------------- MODULE MCPeerMapLocks ---------------------------
(* A small table for PeerMapLocks: two shards with a peer each.            *)
EXTENDS PeerMapLocks, TLC

OnePeerEach == [s \in Shard |-> 1]

\* The handlers change an entry of the first shard, the look-ups need the last.
Spread == [t \in Single |-> IF t \in Handler THEN 1 ELSE Shards]
=============================================================================
