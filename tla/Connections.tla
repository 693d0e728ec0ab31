---------------------------- MODULE Connections ----------------------------
(***************************************************************************)
(* The server's registry of control sessions, proxy_server/src/           *)
(* connected_clients.rs: ConnectedClient (its unbounded outbound channel   *)
(* and the spawned task that pumps it into the websocket) and Connections  *)
(* (two DashMaps, clients by ClientId and hosts by host name).            *)
(*                                                                         *)
(* Every DashMap call is one atomic step on its shard; the calls of one   *)
(* method are separate steps, so another session can run between them.    *)
(* A packet is abstracted to its send index: the k-th packet accepted on  *)
(* a channel is k, which is all the ordering properties tell apart.       *)
(*                                                                         *)
(* The callers (the handshake that builds and adds a client, the tasks    *)
(* that send on it, the termination that removes it) are not under src/;  *)
(* their order follows spec.md 4.6.                                        *)
(***************************************************************************)
EXTENDS Naturals, Sequences, Functions

CONSTANTS
  Ids,        \* ClientId values
  Hosts,      \* host names a session may register under
  Shards,     \* the shards of the clients DashMap
  ShardOf,    \* the shard each ClientId hashes to
  MaxSends    \* bound on packets sent on one channel

ASSUME ConnectionsAssumption ==
  /\ ShardOf \in [Ids -> Shards]
  /\ MaxSends \in Nat

VARIABLES
  sess,       \* caller of each ClientId: handshake / termination pc
  host,       \* the host each ConnectedClient was built with
  cmap,       \* clients: DashMap<ClientId, ConnectedClient>, id -> host
  hmap,       \* hosts:   DashMap<String, ConnectedClient>, host -> id
  held,       \* ids whose remove_by_id holds a clients Ref (shard read lock)
  txopen,     \* the channel is open (close_channel not yet called)
  chan,       \* packets queued in the unbounded channel
  sent,       \* packets for which send_to_client returned Ok, in order
  pump,       \* the spawned task: "none" | "running" | "closed" | "failed"
  wsq,        \* packets written to the websocket, in order
  wsdead      \* the websocket peer has gone: the next send errors

vars == <<sess, host, cmap, hmap, held, txopen, chan, sent, pump, wsq, wsdead>>

SessPC == {"new", "built", "adding", "active", "removing", "rbi_held",
           "rbi_removing", "done"}

TypeOK ==
  /\ sess \in [Ids -> SessPC]
  /\ host \in [Ids -> Hosts]
  /\ DOMAIN cmap \subseteq Ids /\ cmap \in [DOMAIN cmap -> Hosts]
  /\ DOMAIN hmap \subseteq Hosts /\ hmap \in [DOMAIN hmap -> Ids]
  /\ held \subseteq Ids
  /\ txopen \in [Ids -> BOOLEAN]
  /\ chan \in [Ids -> Seq(Nat)]
  /\ sent \in [Ids -> Seq(Nat)]
  /\ pump \in [Ids -> {"none", "running", "closed", "failed"}]
  /\ wsq \in [Ids -> Seq(Nat)]
  /\ wsdead \in [Ids -> BOOLEAN]

\* DashMap::insert and DashMap::remove on a map modelled as a function.
Put(f, k, v) == [x \in DOMAIN f \cup {k} |-> IF x = k THEN v ELSE f[x]]
Drop(f, k) == Restrict(f, DOMAIN f \ {k})

\* A write to the clients map waits for the shard's write lock, which is
\* not free while some remove_by_id holds a Ref into that shard.
ShardFree(c) == \A d \in held : ShardOf[d] # ShardOf[c]

\* The two lookups, with an Option as a set of at most one element:
\* Connections::get answers the registered client (its host), and
\* find_by_host the client the hosts entry holds (its id).
Get(c) == {cmap[x] : x \in DOMAIN cmap \cap {c}}
FindByHost(h) == {hmap[x] : x \in DOMAIN hmap \cap {h}}

Init ==
  /\ sess = [c \in Ids |-> "new"]
  /\ host \in [Ids -> Hosts]
  /\ cmap = <<>>
  /\ hmap = <<>>
  /\ held = {}
  /\ txopen = [c \in Ids |-> FALSE]
  /\ chan = [c \in Ids |-> <<>>]
  /\ sent = [c \in Ids |-> <<>>]
  /\ pump = [c \in Ids |-> "none"]
  /\ wsq = [c \in Ids |-> <<>>]
  /\ wsdead = [c \in Ids |-> FALSE]

-----------------------------------------------------------------------------
(* ConnectedClient                                                         *)

\* ConnectedClient::build: create the unbounded channel and spawn the pump.
Build(c) ==
  /\ sess[c] = "new"
  /\ sess' = [sess EXCEPT ![c] = "built"]
  /\ txopen' = [txopen EXCEPT ![c] = TRUE]
  /\ pump' = [pump EXCEPT ![c] = "running"]
  /\ UNCHANGED <<host, cmap, hmap, held, chan, sent, wsq, wsdead>>

\* send_to_client: Ok while the channel is open and its receiver alive
\* (the pump has not broken out of its loop); an Err changes nothing.
SendToClient(c) ==
  /\ txopen[c] /\ pump[c] = "running"
  /\ Len(sent[c]) < MaxSends
  /\ chan' = [chan EXCEPT ![c] = Append(@, Len(sent[c]) + 1)]
  /\ sent' = [sent EXCEPT ![c] = Append(@, Len(sent[c]) + 1)]
  /\ UNCHANGED <<sess, host, cmap, hmap, held, txopen, pump, wsq, wsdead>>

\* The pump loop, Some(packet) and the websocket send succeeds.
PumpForward(c) ==
  /\ pump[c] = "running" /\ chan[c] # <<>> /\ ~wsdead[c]
  /\ wsq' = [wsq EXCEPT ![c] = Append(@, Head(chan[c]))]
  /\ chan' = [chan EXCEPT ![c] = Tail(@)]
  /\ UNCHANGED <<sess, host, cmap, hmap, held, txopen, sent, pump, wsdead>>

\* Some(packet) and the encode or the websocket send fails: break.  The
\* receiver is dropped with the loop, and with it every packet still queued.
PumpFail(c) ==
  /\ pump[c] = "running" /\ chan[c] # <<>> /\ wsdead[c]
  /\ pump' = [pump EXCEPT ![c] = "failed"]
  /\ chan' = [chan EXCEPT ![c] = <<>>]
  /\ UNCHANGED <<sess, host, cmap, hmap, held, txopen, sent, wsq, wsdead>>

\* Mutant of the None arm: leaving the loop as soon as the channel is
\* closed, queued packets or not.
PumpEndDiscarding(c) ==
  /\ pump[c] = "running" /\ ~txopen[c]
  /\ pump' = [pump EXCEPT ![c] = "closed"]
  /\ chan' = [chan EXCEPT ![c] = <<>>]
  /\ UNCHANGED <<sess, host, cmap, hmap, held, txopen, sent, wsq, wsdead>>

\* rx.next() returns None: the channel is closed and drained.
PumpEnd(c) ==
  /\ pump[c] = "running" /\ chan[c] = <<>> /\ ~txopen[c]
  /\ pump' = [pump EXCEPT ![c] = "closed"]
  /\ UNCHANGED <<sess, host, cmap, hmap, held, txopen, chan, sent, wsq, wsdead>>

\* The websocket peer disconnects (environment).
WsFail(c) ==
  /\ pump[c] = "running" /\ ~wsdead[c]
  /\ wsdead' = [wsdead EXCEPT ![c] = TRUE]
  /\ UNCHANGED <<sess, host, cmap, hmap, held, txopen, chan, sent, pump, wsq>>

-----------------------------------------------------------------------------
(* Connections                                                             *)

\* Connections::add, first call: clients.insert.
AddClients(c) ==
  /\ sess[c] = "built" /\ ShardFree(c)
  /\ cmap' = Put(cmap, c, host[c])
  /\ sess' = [sess EXCEPT ![c] = "adding"]
  /\ UNCHANGED <<host, hmap, held, txopen, chan, sent, pump, wsq, wsdead>>

\* Mutant: hosts.insert with key and value swapped.
AddHostsSwapped(c) ==
  /\ sess[c] = "adding"
  /\ hmap' = Put(hmap, c, host[c])
  /\ sess' = [sess EXCEPT ![c] = "active"]
  /\ UNCHANGED <<host, cmap, held, txopen, chan, sent, pump, wsq, wsdead>>

\* Connections::add, second call: hosts.insert.
AddHosts(c) ==
  /\ sess[c] = "adding"
  /\ hmap' = Put(hmap, host[c], c)
  /\ sess' = [sess EXCEPT ![c] = "active"]
  /\ UNCHANGED <<host, cmap, held, txopen, chan, sent, pump, wsq, wsdead>>

\* Mutant: remove closes the channel but forgets hosts.remove.
RemoveHostsKeepIndex(c) ==
  /\ sess[c] = "active"
  /\ txopen' = [txopen EXCEPT ![c] = FALSE]
  /\ sess' = [sess EXCEPT ![c] = "removing"]
  /\ UNCHANGED <<host, cmap, hmap, held, chan, sent, pump, wsq, wsdead>>

\* Connections::remove: close_channel, then hosts.remove(&client.host).
RemoveHosts(c) ==
  /\ sess[c] = "active"
  /\ txopen' = [txopen EXCEPT ![c] = FALSE]
  /\ hmap' = Drop(hmap, host[c])
  /\ sess' = [sess EXCEPT ![c] = "removing"]
  /\ UNCHANGED <<host, cmap, held, chan, sent, pump, wsq, wsdead>>

\* Connections::remove, last call: clients.remove(&client.id).
RemoveClients(c) ==
  /\ sess[c] = "removing" /\ ShardFree(c)
  /\ cmap' = Drop(cmap, c)
  /\ sess' = [sess EXCEPT ![c] = "done"]
  /\ UNCHANGED <<host, hmap, held, txopen, chan, sent, pump, wsq, wsdead>>

\* Connections::remove_by_id: clients.get(&id) returns a Ref, which holds
\* the shard's read lock until the end of the if-let block.
RemoveByIdGet(c) ==
  /\ sess[c] = "active" /\ c \in DOMAIN cmap
  /\ held' = held \cup {c}
  /\ sess' = [sess EXCEPT ![c] = "rbi_held"]
  /\ UNCHANGED <<host, cmap, hmap, txopen, chan, sent, pump, wsq, wsdead>>

\* remove_by_id, through the Ref: close_channel and hosts.remove.  The next
\* call, clients.remove(&client.id), needs the write lock of the shard the
\* Ref still holds for reading: it never returns, so "rbi_removing" has no
\* step out.
RemoveByIdHosts(c) ==
  /\ sess[c] = "rbi_held"
  /\ txopen' = [txopen EXCEPT ![c] = FALSE]
  /\ hmap' = Drop(hmap, cmap[c])
  /\ sess' = [sess EXCEPT ![c] = "rbi_removing"]
  /\ UNCHANGED <<host, cmap, held, chan, sent, pump, wsq, wsdead>>

PumpStep(c) == PumpForward(c) \/ PumpFail(c) \/ PumpEnd(c)
Teardown(c) == RemoveHosts(c) \/ RemoveClients(c) \/ RemoveByIdHosts(c)

Next ==
  \E c \in Ids :
     \/ Build(c) \/ SendToClient(c) \/ WsFail(c) \/ PumpStep(c)
     \/ AddClients(c) \/ AddHosts(c) \/ RemoveByIdGet(c) \/ Teardown(c)

Spec == Init /\ [][Next]_vars

\* A session that has begun its teardown runs it to the end: each step is
\* a non-blocking DashMap call once its shard is free.  The pump gets no
\* fairness: its websocket send can stay pending for ever when the peer
\* stops reading.
FairSpec == Spec /\ \A c \in Ids : WF_vars(Teardown(c))

-----------------------------------------------------------------------------
(* Properties                                                              *)

(* A host entry always names a registered client built with that host:     *)
(* Connections::add inserts into clients before hosts and remove drops the *)
(* host before the client, so find_by_host never returns a client that     *)
(* get would no longer find, whatever the interleaving of sessions.        *)
HostsSound ==
  \A h \in Hosts : \A c \in FindByHost(h) : Get(c) = {h}

(* A pump that ended normally (rx.next() returned None after               *)
(* close_channel) has written to the websocket exactly the packets         *)
(* send_to_client accepted, in the order accepted: close_channel lets the  *)
(* receiver drain what is queued, and no send succeeds after it.           *)
DrainedOnClose ==
  \A c \in Ids : pump[c] = "closed" => wsq[c] = sent[c]

(* A remove takes away only its own client's host entry: a step of        *)
(* remove or remove_by_id that drops a hosts entry drops one that names    *)
(* the client being removed.  The unit test                                *)
(* connections_hosts_should_be_registered expects an added client to be   *)
(* found by its host; hosts.remove(&client.host) deletes whatever the      *)
(* entry names, so when two sessions share a host, removing the one whose *)
(* entry was overwritten hides the other, still active, session.          *)
RemoveDropsOwnHost ==
  [][\A c \in Ids :
       (RemoveHosts(c) \/ RemoveByIdHosts(c)) =>
          \A h \in DOMAIN hmap \ DOMAIN hmap' : hmap[h] = c]_vars

(* A session that has begun removing its client finishes (remove and      *)
(* remove_by_id return).                                                   *)
TeardownCompletes ==
  \A c \in Ids : (sess[c] \in {"removing", "rbi_held", "rbi_removing"})
                    ~> (sess[c] = "done")

=============================================================================
