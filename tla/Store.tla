------------------------------- MODULE Store -------------------------------
(***************************************************************************)
(* The server's shared registry, ownserver_server/src/store.rs (Store),    *)
(* together with the callers that drive it: one control session per        *)
(* client (handshake, termination) and one accept task per public          *)
(* connection.                                                             *)
(*                                                                         *)
(* Each Store method is split at the points where another task can        *)
(* observe a half-done call: a lock released and another taken, or one     *)
(* map written after another.  add_client and add_remote write the locked  *)
(* HashMap and then the DashMap index; cleanup sweeps streams and then     *)
(* clients under two separate write locks; find_stream_id_by_addr reads    *)
(* the DashMap and then awaits the streams read lock.                      *)
(*                                                                         *)
(* The PortAllocator, the RemoteStream and Client records and the session  *)
(* driver are not under src/ and are modelled from spec.md (4.2, 4.5,      *)
(* 4.6).  The per-entity channels (send_to_client, send_to_remote) are     *)
(* left to the module StoreChannels.                                       *)
(***************************************************************************)
EXTENDS Functions

CONSTANTS
  ClientIds,   \* ClientId values the server can mint (opaque)
  StreamIds,   \* StreamId values the listeners can mint (opaque)
  Addrs,       \* peer SocketAddrs of remote connections
  Ports,       \* the allocator's port range [lo, hi)
  None         \* Option::None

ASSUME StoreAssumption ==
  /\ None \notin StreamIds
  /\ None \notin Ports
  /\ None \notin ClientIds
  /\ None \notin Addrs

VARIABLES
  streams,     \* streams:   HashMap<StreamId, RemoteStream>
  clients,     \* clients:   HashMap<ClientId, Client>
  addrs_map,   \* addrs_map: DashMap<SocketAddr, StreamId>
  port_map,    \* port_map:  DashMap<u16, ClientId>
  free,        \* PortAllocator: the ports not handed out
  sess,        \* control session of each ClientId: its program counter
  sport,       \* the port the session got from allocate_port
  conn,        \* accept task of each StreamId: pc, owner and peer address
  finding      \* UDP dispatcher of each client: find_stream_id_by_addr

vars == <<streams, clients, addrs_map, port_map, free, sess, sport, conn, finding>>

SessPC == {"new", "alloc", "adding", "active", "disabled", "released",
           "sweeping", "done"}
ConnPC == {"idle", "indexing", "open"}

\* RemoteStream: owner, peer address and the disabled flag (spec 3).
StreamRec == [client : ClientIds, addr : Addrs, disabled : BOOLEAN]
\* Client: the public port and the disabled flag (spec 3).
ClientRec == [port : Ports, disabled : BOOLEAN]
\* A find_stream_id_by_addr in progress: the address asked for, the id read
\* from addrs_map, and the value returned by the last completed call.
FindRec == [pc : {"idle", "reading"}, addr : Addrs \cup {None},
            sid : StreamIds \cup {None}, result : StreamIds \cup {None}]

TypeOK ==
  /\ DOMAIN streams \subseteq StreamIds
  /\ streams \in [DOMAIN streams -> StreamRec]
  /\ DOMAIN clients \subseteq ClientIds
  /\ clients \in [DOMAIN clients -> ClientRec]
  /\ DOMAIN addrs_map \subseteq Addrs
  /\ addrs_map \in [DOMAIN addrs_map -> StreamIds]
  /\ DOMAIN port_map \subseteq Ports
  /\ port_map \in [DOMAIN port_map -> ClientIds]
  /\ free \subseteq Ports
  /\ sess \in [ClientIds -> SessPC]
  /\ sport \in [ClientIds -> Ports \cup {None}]
  /\ conn \in [StreamIds -> [pc : ConnPC, client : ClientIds \cup {None},
                              addr : Addrs \cup {None}]]
  /\ finding \in [ClientIds -> FindRec]

-----------------------------------------------------------------------------
(* Map helpers: HashMap::insert / DashMap::insert and HashMap::retain.     *)

EmptyMap == [x \in {} |-> None]

Insert(f, k, v) == [x \in DOMAIN f \cup {k} |-> IF x = k THEN v ELSE f[x]]

Live(f) == {x \in DOMAIN f : ~f[x].disabled}

\* A stream or client that is registered and not disabled.
LiveStreams == Live(streams)
LiveClients == Live(clients)

-----------------------------------------------------------------------------
(* Store::new: empty maps and an allocator owning the whole range.         *)
Init ==
  /\ streams = EmptyMap
  /\ clients = EmptyMap
  /\ addrs_map = EmptyMap
  /\ port_map = EmptyMap
  /\ free = Ports
  /\ sess = [c \in ClientIds |-> "new"]
  /\ sport = [c \in ClientIds |-> None]
  /\ conn = [s \in StreamIds |-> [pc |-> "idle", client |-> None, addr |-> None]]
  /\ finding = [c \in ClientIds |-> [pc |-> "idle", addr |-> None,
                                      sid |-> None, result |-> None]]

-----------------------------------------------------------------------------
(* Control session (spec 4.6), handshake: allocate_port under the          *)
(* allocator mutex.  PortAllocator::allocate_port draws any free port, or  *)
(* fails with Exhausted and the handshake ends the session.                *)
AllocatePort(c) ==
  /\ sess[c] = "new"
  /\ \/ \E p \in free :
          /\ free' = free \ {p}
          /\ sport' = [sport EXCEPT ![c] = p]
          /\ sess' = [sess EXCEPT ![c] = "alloc"]
     \/ /\ free = {}
        /\ sess' = [sess EXCEPT ![c] = "done"]
        /\ UNCHANGED <<free, sport>>
  /\ UNCHANGED <<streams, clients, addrs_map, port_map, conn, finding>>

(* add_client, first half: clients.write().await.insert(client_id, client) *)
AddClientInsert(c) ==
  /\ sess[c] = "alloc"
  /\ clients' = Insert(clients, c, [port |-> sport[c], disabled |-> FALSE])
  /\ sess' = [sess EXCEPT ![c] = "adding"]
  /\ UNCHANGED <<streams, addrs_map, port_map, free, sport, conn, finding>>

\* Mutants of add_client's second half: the insert with key and value
\* swapped, and an entry().or_insert that keeps a previous owner's entry.
AddClientIndexSwapped(c) ==
  /\ sess[c] = "adding"
  /\ port_map' = Insert(port_map, c, sport[c])
  /\ sess' = [sess EXCEPT ![c] = "active"]
  /\ UNCHANGED <<streams, clients, addrs_map, free, sport, conn, finding>>
AddClientIndexOrInsert(c) ==
  /\ sess[c] = "adding"
  /\ port_map' = IF sport[c] \in DOMAIN port_map THEN port_map
                  ELSE Insert(port_map, sport[c], c)
  /\ sess' = [sess EXCEPT ![c] = "active"]
  /\ UNCHANGED <<streams, clients, addrs_map, free, sport, conn, finding>>

(* add_client, second half: port_map.insert(remote_port, client_id).  The  *)
(* handshake then answers ServerHello and the session is active.           *)
AddClientIndex(c) ==
  /\ sess[c] = "adding"
  /\ port_map' = Insert(port_map, sport[c], c)
  /\ sess' = [sess EXCEPT ![c] = "active"]
  /\ UNCHANGED <<streams, clients, addrs_map, free, sport, conn, finding>>

(* Session termination, first step: disable_client.  Only the Client       *)
(* record is marked; its streams are left as they are.                     *)
DisableClient(c) ==
  /\ sess[c] = "active"
  /\ clients' = IF c \in DOMAIN clients
                  THEN [clients EXCEPT ![c].disabled = TRUE]
                  ELSE clients
  /\ sess' = [sess EXCEPT ![c] = "disabled"]
  /\ UNCHANGED <<streams, addrs_map, port_map, free, sport, conn, finding>>

\* Mutant: the session releases its port before disabling its client.
ReleasePortFirst(c) ==
  /\ sess[c] = "active"
  /\ free' = free \cup {sport[c]}
  /\ sess' = [sess EXCEPT ![c] = "released"]
  /\ UNCHANGED <<streams, clients, addrs_map, port_map, sport, conn, finding>>

(* Session termination: release_port under the allocator mutex.            *)
ReleasePort(c) ==
  /\ sess[c] = "disabled"
  /\ free' = free \cup {sport[c]}
  /\ sess' = [sess EXCEPT ![c] = "released"]
  /\ UNCHANGED <<streams, clients, addrs_map, port_map, sport, conn, finding>>

(* cleanup, first half: streams.write().await.retain(|_, v| !v.disabled()) *)
CleanupStreams(c) ==
  /\ sess[c] = "released"
  /\ streams' = Restrict(streams, LiveStreams)
  /\ sess' = [sess EXCEPT ![c] = "sweeping"]
  /\ UNCHANGED <<clients, addrs_map, port_map, free, sport, conn, finding>>

(* cleanup, second half: clients.write().await.retain(|_, v| !v.disabled())*)
CleanupClients(c) ==
  /\ sess[c] = "sweeping"
  /\ clients' = Restrict(clients, LiveClients)
  /\ sess' = [sess EXCEPT ![c] = "done"]
  /\ UNCHANGED <<streams, addrs_map, port_map, free, sport, conn, finding>>

-----------------------------------------------------------------------------
(* Public listener of client c accepts a connection from peer a and mints  *)
(* stream id s (spec 4.5); add_remote, first half:                         *)
(* streams.write().await.insert(stream_id, remote).  The listener runs     *)
(* while the session is active, and an accept already past its await can  *)
(* still register its stream after disable_client, until the cancellation *)
(* reaches it (spec 4.6, 5 "within a bounded grace window"; modelled as    *)
(* before release_port).  The OS never gives one listener two open         *)
(* connections from the same peer address.                                 *)
AddRemoteInsert(s, c, a) ==
  /\ conn[s].pc = "idle"
  /\ sess[c] \in {"active", "disabled"}
  /\ ~\E t \in LiveStreams : streams[t].client = c /\ streams[t].addr = a
  /\ streams' = Insert(streams, s, [client |-> c, addr |-> a, disabled |-> FALSE])
  /\ conn' = [conn EXCEPT ![s] = [pc |-> "indexing", client |-> c, addr |-> a]]
  /\ UNCHANGED <<clients, addrs_map, port_map, free, sess, sport, finding>>

(* add_remote, second half: addrs_map.insert(peer_addr, stream_id).        *)
AddRemoteIndex(s) ==
  /\ conn[s].pc = "indexing"
  /\ addrs_map' = Insert(addrs_map, conn[s].addr, s)
  /\ conn' = [conn EXCEPT ![s].pc = "open"]
  /\ UNCHANGED <<streams, clients, port_map, free, sess, sport, finding>>

(* disable_remote(s): the stream's reader hit a socket error, or the       *)
(* client answered Refused(s).  A swept id is a no-op (if let Some).       *)
DisableRemote(s) ==
  /\ conn[s].pc = "open"
  /\ s \in DOMAIN streams
  /\ streams' = [streams EXCEPT ![s].disabled = TRUE]
  /\ UNCHANGED <<clients, addrs_map, port_map, free, sess, sport, conn, finding>>

-----------------------------------------------------------------------------
(* find_stream_id_by_addr(a) called by client c's UDP dispatcher, first    *)
(* half: addrs_map.get(addr); a miss returns None at once.                 *)
FindRead(c, a) ==
  /\ sess[c] = "active"
  /\ finding[c].pc = "idle"
  /\ finding' = [finding EXCEPT ![c] =
        IF a \in DOMAIN addrs_map
          THEN [pc |-> "reading", addr |-> a, sid |-> addrs_map[a], result |-> None]
          ELSE [pc |-> "idle", addr |-> a, sid |-> None, result |-> None]]
  /\ UNCHANGED <<streams, clients, addrs_map, port_map, free, sess, sport, conn>>

(* second half: streams.read().await.get(&stream_id), Some only if the     *)
(* stream is still registered and not disabled.                            *)
FindCheck(c) ==
  /\ finding[c].pc = "reading"
  /\ LET s == finding[c].sid IN
       finding' = [finding EXCEPT ![c] =
          [pc |-> "idle", addr |-> finding[c].addr, sid |-> s,
           result |-> IF s \in LiveStreams THEN s ELSE None]]
  /\ UNCHANGED <<streams, clients, addrs_map, port_map, free, sess, sport, conn>>

-----------------------------------------------------------------------------
Next ==
  \/ \E c \in ClientIds :
        \/ AllocatePort(c) \/ AddClientInsert(c) \/ AddClientIndex(c)
        \/ DisableClient(c) \/ ReleasePort(c)
        \/ CleanupStreams(c) \/ CleanupClients(c)
        \/ FindCheck(c)
        \/ \E a \in Addrs : FindRead(c, a)
  \/ \E s \in StreamIds :
        \/ AddRemoteIndex(s) \/ DisableRemote(s)
        \/ \E c \in ClientIds, a \in Addrs : AddRemoteInsert(s, c, a)

Spec == Init /\ [][Next]_vars

-----------------------------------------------------------------------------
(* Port exclusivity (spec 3, invariant 2; 4.2 "no port is handed out       *)
(* twice"): the port of a client that is registered and not disabled is    *)
(* not in the allocator's free set, and no other such client holds it.     *)
(* Breaking it takes a session that returns its port while its Client is   *)
(* still live, or an allocator that hands out a held port.                 *)
PortExclusive ==
  \A c \in LiveClients :
     /\ clients[c].port \notin free
     /\ \A d \in LiveClients \ {c} : clients[d].port # clients[c].port

(* The port index agrees with the registry (spec 4.4): once add_client has *)
(* returned, port_map sends the client's port to that client for as long   *)
(* as the client is live, even after earlier owners of the same port left  *)
(* stale entries behind.                                                   *)
PortMapAgrees ==
  \A c \in LiveClients :
     sess[c] = "active" => /\ clients[c].port \in DOMAIN port_map
                          /\ port_map[clients[c].port] = c

(* Sweeping keeps the indexes in step (spec 4.3, 4.4: sweep drops disabled *)
(* entries "from every index"): every addrs_map entry names a registered   *)
(* stream and every port_map entry a registered client.  cleanup only      *)
(* retains the two HashMaps.                                               *)
IndexesSwept ==
  /\ \A a \in DOMAIN addrs_map : addrs_map[a] \in DOMAIN streams
  /\ \A p \in DOMAIN port_map : port_map[p] \in DOMAIN clients

(* Disabling a client cascades to its streams (spec 3, invariant 3; 4.4):  *)
(* a stream that is registered and not disabled belongs to a client that   *)
(* is registered and not disabled.                                         *)
OwnedStreamsLive ==
  \A s \in LiveStreams : streams[s].client \in LiveClients

(* The UDP dispatcher of client c is only ever handed a stream of c by     *)
(* find_stream_id_by_addr (spec 4.5: each datagram source of that public   *)
(* socket pairs with one logical stream).                                  *)
FindReturnsOwnStream ==
  \A c \in ClientIds :
     finding[c].result # None => conn[finding[c].result].client = c

=============================================================================
