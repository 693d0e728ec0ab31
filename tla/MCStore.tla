------------------------------ MODULE MCStore ------------------------------
(* Model-checking instance of Store; the .cfg files choose the sets of     *)
(* clients, public connections, peer addresses and ports (model values).  *)
(* MCStore.cfg has three clients for two ports, so a third handshake finds *)
(* the allocator exhausted while the other two hold their ports, and a     *)
(* released port is handed to a later client.                              *)
EXTENDS Store, TLC

\* Ids, addresses and ports are opaque: only equality is ever used on them.
MCSymmetry == Permutations(ClientIds) \cup Permutations(StreamIds)
                \cup Permutations(Addrs) \cup Permutations(Ports)
=============================================================================
