------------------------- MODULE MCStoreRefinement -------------------------
(* The Store instance of MCStore, checked against the port registry.       *)
EXTENDS StoreRefinement, TLC

MCRefSymmetry == Permutations(ClientIds) \cup Permutations(StreamIds)
                   \cup Permutations(Addrs) \cup Permutations(Ports)
=============================================================================
