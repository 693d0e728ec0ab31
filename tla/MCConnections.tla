--------------------------- MODULE MCConnections ---------------------------
(* Model-checking instance of Connections: every ClientId hashes to one    *)
(* shard of the clients DashMap, the collision the real hash can produce.  *)
EXTENDS Connections, TLC

CONSTANTS c1, c2, h1, h2, sh1

MCIds == {c1, c2}
MCHosts == {h1, h2}
MCShards == {sh1}
MCShardOf == [c \in MCIds |-> sh1]

MCSymmetry == Permutations(MCIds) \cup Permutations(MCHosts)
=============================================================================
