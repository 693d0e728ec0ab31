# Formal models of ownserver's registries

This directory holds TLA+ models of the two shared registries in the
repository's server code, and of the locks and channels behind the Store's
send methods. Each is checked with TLC on small instances. Every invariant
that a passing run checks, and the Store's refinement of an atomic port
registry, are also proved with TLAPS, for every instance.

## The system and what of it is under src/

ownserver tunnels TCP/UDP traffic from a public port on the server to a local
port on the client. It does this over one websocket per client ("control
session"). Only five files are under `src/`:

| file | what it is |
|---|---|
| `ownserver_server/src/store.rs` | `Store`: the server's registry of `RemoteStream`s (public connections) and `Client`s, two DashMap indexes (`addrs_map`: peer address → stream, `port_map`: port → client) and the `PortAllocator` behind a mutex |
| `proxy_server/src/connected_clients.rs` | `ConnectedClient` (an unbounded outbound channel plus a spawned task that pumps it into the websocket) and `Connections` (DashMaps of clients by id and by host) |
| `ownserver/src/main.rs`, `proxy_client/src/main.rs` | CLI entry points: argument parsing, join of tasks |
| `proxy_server/tests/proxy_server_test.rs` | end-to-end socket tests |

The callers of the registries are not under `src/`: the control session's
handshake and termination, the public listener's accept task, and the UDP
dispatcher. So their order of calls is taken from `spec.md` (4.5, 4.6), and
so is the port allocator (4.2). These are the only parts modelled from the
spec. `PROJECT.json` marks each such definition `spec_modelled`.

### How the parts interact

- **Handshake:** `allocate_port` → `add_client` (clients, then `port_map`) →
  `ServerHello`.
- **Accept task:** accepting a peer runs `add_remote` (streams, then
  `addrs_map`). A socket error or `Refused` runs `disable_remote`.
- **UDP dispatcher:** maps each datagram's source through
  `find_stream_id_by_addr`. It first reads `addrs_map`, then awaits the streams
  read lock.
- **Termination:** `disable_client` → `release_port` → `cleanup` (retain
  streams, then retain clients, each under its own write lock).
- **Proxy-server sessions:** a session builds a `ConnectedClient`, adds it to
  `Connections` (clients, then hosts), sends packets through its channel and
  finally calls `remove` or `remove_by_id`.

## Inventory

| component | state | operations | hard behaviour |
|---|---|---|---|
| Store | `streams`, `clients` (RwLock HashMaps), `addrs_map`, `port_map` (DashMaps), allocator | new, add_client, add_remote, disable_client, disable_remote, cleanup, find_stream_id_by_addr, allocate_port, release_port; send_to_client/send_to_remote | methods split across two maps or two lock regions; find reads then awaits; locks held across channel sends |
| Connections | `clients`, `hosts` (DashMaps), per client: channel, pump task, websocket | build, send_to_client, close_channel, add, remove, remove_by_id, clear; get, find_by_host | pump drains after close; shard locks held through `Ref`s; two maps written by separate calls |
| Port allocator (spec) | free ports | allocate, release | exhaustion; reuse of a released port |
| CLI mains | none shared | parse, join | none a model checker reaches |

Properties that matter, per component:

- **Store:**
  - ports are exclusive;
  - `port_map` names the live owner;
  - the indexes are swept together with the maps;
  - a client's live streams belong to a live client;
  - find returns a stream of the asking client.
- **Connections:**
  - the hosts index is sound, and a remove drops only its own host entry;
  - the pump drains on close;
  - teardown completes.

## Modules

| module | models | state ↔ code |
|---|---|---|
| `Store.tla` | `store.rs` with its callers | `streams`, `clients`, `addrs_map`, `port_map` are partial functions (a HashMap/DashMap). `free` is the allocator. `sess`/`sport` are the control session's program counter and port. `conn[s]` is the accept task that mints stream `s`. `finding[c]` is the UDP dispatcher of client `c` inside `find_stream_id_by_addr` |
| `MCStore.tla` | TLC instance | symmetry over all four id sets |
| `StoreProofs.tla` | TLAPS proofs for `Store` | |
| `Connections.tla` | `connected_clients.rs` | `cmap`/`hmap` are the two DashMaps. `held` records the ids whose `remove_by_id` holds a `Ref` (a shard read lock). `txopen`, `chan` and `pump` are the channel and its task. `sent` and `wsq` record what `send_to_client` accepted and what reached the websocket |
| `MCConnections.tla` | TLC instance | both ids hash to one shard |
| `ConnectionsProofs.tla` | TLAPS proofs for `Connections` | |
| `StoreChannels.tla` | `send_to_client`, `send_to_remote` with the calls that contend for the two RwLocks | `holder` is the task holding each RwLock's write guard. `reg` is each stream's and client's entry ("live", "disabled" or "absent" after the sweep). `chan` is the number of messages in each entity's bounded channel. `pc`/`tgt`/`cnt` are the tasks' program counters, call targets and send counts |
| `StoreChannelsProofs.tla` | TLAPS proof of `TypeOK` for `StoreChannels` | |
| `MCStoreChannels.tla` | TLC instance | one stream `s1` of client `c1`; `Stalled` is `{}`, `{s1}` or `{c1}` |
| `PortRegistry.tla` | the registry's promise about ports (spec 4.2-4.4), every operation atomic | `held[c]` is the port of live client `c`, or `None` |
| `StoreRefinement.tla` | `Store` as an implementation of `PortRegistry` | `held` is mapped to `HeldMap`, the port of each client that is in `clients` and not disabled |
| `MCStoreRefinement.tla` | TLC instance | the `MCStore` constants, with symmetry |

Each Store method is one action, or two where another task can run in the
middle:

- `AddClientInsert`/`AddClientIndex`: the two writes of `add_client`.
- `AddRemoteInsert`/`AddRemoteIndex`: the two writes of `add_remote`.
- `CleanupStreams`/`CleanupClients`: the two critical sections of `cleanup`.
- `FindRead`/`FindCheck`: the DashMap read and the awaited streams read of
  `find_stream_id_by_addr`.
- `DisableClient` and `DisableRemote`: one step each, with no effect when the
  id is absent.
- `AllocatePort` and `ReleasePort`: one step each. `AllocatePort` either draws
  a free port or fails with Exhausted, which ends the session.

In Connections every DashMap call is a step, as are the three exits of the
pump loop:

- `PumpForward`: a packet written to the websocket.
- `PumpFail`: an encode or websocket error. The loop breaks and drops the
  receiver, together with what is still queued.
- `PumpEnd`: `None` after `close_channel`.

`WsFail` is the websocket peer going away. A write to the clients map
(`AddClients`, `RemoveClients`) waits while some `remove_by_id` holds a `Ref`
into that shard. `remove_by_id` itself stops in `rbi_removing`, because its
`clients.remove` waits on its own `Ref`. This state has no step out, since
the code has none.

In StoreChannels there are three kinds of task: the control session's
inbound pump `In(c)` (it calls `send_to_remote` on one of `c`'s streams), the
public reader task `Rd(s)` (it calls `send_to_client` of the owner, and
`disable_remote(s)` on a socket error), and the session end `Ses(c)`
(`disable_client`, then both halves of `cleanup`). A send is three steps,
because the guard lives across the await:

- `Acquire`: `write().await` on the streams lock (`send_to_remote`) or the
  clients lock (`send_to_client`).
- `SendEnqueue`: the bounded send completes once the channel has room, and
  the guard is dropped.
- `SendMiss`: the entry is gone or disabled, so the call returns an error
  and drops the guard.

`Terminate(c)` is the end of `c`'s session (spec 126). It cancels the tasks
under the session's cancellation handle (spec 161): `In(c)` and the readers
of `c`'s streams. A cancelled task is dropped at its await point, and a write
guard it held across a parked send is dropped with it.

`Drain(e)` is the consumer of the channel (the stream's writer task, the
client's websocket pump). It never runs for an entity in `Stalled`: its peer
has stopped reading. `disable_remote`, `disable_client` and the `cleanup`
halves do only non-blocking map work under their guard, so each is one step
taken while the lock is free.

A packet is abstracted to its send index, so the k-th packet accepted on a
channel is `k`. That is all the ordering properties tell apart.

## Runs

| run | cfg | result | what it shows |
|---|---|---|---|
| store_ports | `MCStore.cfg` | pass (131k states) | `TypeOK`, `PortExclusive`, `PortMapAgrees` hold for three sessions over two ports, across exhaustion, release and reuse |
| store_indexes | `MCStoreIndexes.cfg` | violation | `IndexesSwept`: `cleanup` never prunes `addrs_map`/`port_map` |
| store_cascade | `MCStoreCascade.cfg` | violation | `OwnedStreamsLive`: `disable_client` leaves the client's streams live |
| store_find | `MCStoreFind.cfg` | violation | `FindReturnsOwnStream`: one peer address reaching two clients' ports makes find return the other client's stream |
| conn_safety | `MCConnections.cfg` | pass (18k states) | `TypeOK`, `HostsSound`, `DrainedOnClose` under every interleaving of two sessions and their pumps |
| conn_hosts | `MCConnectionsHosts.cfg` | violation | `RemoveDropsOwnHost`: two sessions on one host, and the remove of the first deletes the entry naming the second, still active |
| conn_teardown | `MCConnectionsTeardown.cfg` | violation | `TeardownCompletes`: `remove_by_id` never returns |
| store_channels | `MCStoreChannels.cfg` | pass (7.8k states) | `TypeOK`, `StallIsolated`: while every peer reads, every send, disable and cleanup returns, even with the guard held across the await |
| store_stall | `MCStoreChannelsStall.cfg` | violation | `StallIsolated`: one public peer that stops reading parks `send_to_remote` under the streams guard, and `disable_remote` of that stream never runs |
| store_stall_client | `MCStoreChannelsStallClient.cfg` | pass | `StallIsolated` with `c1`'s websocket peer stalled: the reader parks `send_to_client` under the clients guard, but only until `c1`'s session is ended by its ping timeout and cancels the reader |
| store_refines | `MCStoreRefinement.cfg` | pass (93k states) | `AbsSpec`: every Store behaviour, mapped to live clients' ports, is a behaviour of `PortRegistry` |

The violations are the findings listed in `PROJECT.json`.

### Bounds

**Store:** `store_ports` has three clients, two ports, one stream and one
peer address. With three clients for two ports, a third handshake finds the
allocator exhausted while the other two hold their ports, and a released port
is handed to a later client while the earlier client may still be live. The
port properties do not involve streams, and a second stream and address only
multiplied the state space. The violation runs and `store_refines` use two
clients, two streams, two peer addresses and two ports, the smallest instance
in which one peer address reaches both clients and a stream outlives its
client's disable.

Ids are minted once and never reused, as the code's random `ClientId`s and
`StreamId`s are. So every behaviour ends when the supply is used up, and the
runs set `CHECK_DEADLOCK FALSE`.

**Connections:** two sessions, two hosts (the same host twice is the
`RemoveDropsOwnHost` case), one shard and `MaxSends = 2`. Two packets are the fewest
that can be reordered, or delivered in part before a close or a failure.
Deadlock checking is off for the same reason as in Store. Sessions end, and
a `remove_by_id` stays blocked, which is the finding.

**StoreChannels:** two clients and one stream of `c1`, `Cap = 1` and
`MaxMsgs = 2`. With one slot, the second send to a stalled stream parks
under the guard. `c2` gives a second session, whose disable and cleanup
contend for the same locks. The three instances differ in `Stalled`: nobody,
the public peer of `s1`, or the websocket peer of `c1`. A second stream multiplied the state graph by
250 (1.9M states) without adding a case that the property tells apart: the
stall already blocks the stream's own `disable_remote`.

Symmetry is used only in the safety runs, and in `store_refines`, where
`AbsSpec` has no fairness, so it is a safety property too.
The liveness runs do without it.

### Fairness

`FairSpec` of Connections assumes weak fairness of each session's teardown
steps (`Teardown`). Once begun, they are a plain sequence of non-blocking
DashMap calls. The pump gets no fairness: its `ws.send(..).await` can stay
pending for ever when the websocket peer stops reading
(`connected_clients.rs:47`), so whether the pump ends depends on the peer, and
no run claims it does. Sending, building, adding and the websocket failing
are also not fair. They are the environment's choices.

`StoreChannels` assumes the following:

- Strong fairness of lock acquisition (`Acquire`, `DisableRemote`, and the
  session's disable and cleanup steps). Tokio's `RwLock` is fair: it queues
  waiters in FIFO order, so a waiter that the lock is repeatedly released to
  gets it.
- Weak fairness of finishing a held send (`SendMiss`, `SendEnqueue`) and of
  every consumer's `Drain`. An entity in `Stalled` has no `Drain` step.
- Weak fairness of `Terminate(c)` for a client `c` in `Stalled`. A websocket
  peer that stops reading never reads a `Ping`, so it sends no `Pong`, and
  the liveness check ends the session within two cadences (spec 125).

Starting a send, a reader failing, and the ending of a session whose peer
still reads are the environment's choices and are not fair. A stalled
public peer has no liveness check, so its client's session may run for ever.

## Proofs (`StoreProofs.tla`)

- **`THEOREM TypeCorrect == Spec => []TypeOK`**
- **`THEOREM PortsExclusive == Spec => []PortExclusive`**
- **`THEOREM PortMapAlwaysAgrees == Spec => []PortMapAgrees`**

All three hold for all values of the constants, assuming only
`StoreAssumption`: `None` is in none of the id sets.

`TypeOK` is not inductive: `ReleasePort` needs `sport[c] \in Ports`, which
only the session's history guarantees. `PortExclusive` is not inductive
either. So both are proved from `IInv == TypeOK /\ PortInv /\ TaskInv`, where
`PortInv` has four parts:

- `PortHeld`: a port held by a session (`alloc` to `disabled`) is not free.
- `PortsDistinct`: two holding sessions hold different ports.
- `ClientsMatchSessions`: a registered client carries its session's port, and
  it is disabled exactly when the session is past `active`.
- `ActiveRegistered`: an adding or active session is registered.

`TaskInv` says that an accept task past `idle` has a client and an address,
and that a dispatcher in `reading` has a stream id.

The proof has three parts:

- `InitIInv`: `Init` establishes `IInv`.
- `TypeStep`, `TaskStep` and one lemma per session action: each of them
  preserves `IInv`.
- `NextIInv` collects them, and `IInv => PortExclusive` closes the argument.

`PortMapAgrees` needs one more invariant, `PortIndexed`: an active
session's port is indexed to it. Only `add_client`'s second half writes
`port_map`, and it writes the port of an adding session. By `PortsDistinct`,
that port differs from every active session's port, so a stale entry for a
reused port is overwritten before its new owner turns active. `IndexStep`
shows that each step preserves `PortIndexed` under `IInv`.

The argument rests on two facts of the call order. The session disables its
client before `release_port` (`ClientsMatchSessions` plus `PortHeld`). This is
the termination order of spec 4.6, because the session code is not under
`src/`. `add_client` registers the port the allocator handed out.

## Proofs of the refinement (`PortRegistry.tla`, `StoreRefinement.tla`)

- **`THEOREM StoreRefinesRegistry == Spec => AbsSpec`** (in
  `StoreRefinement`). Under the mapping `held <- HeldMap`, each step of the
  Store maps to a step of the registry or to a stutter:
  - `AddClientInsert(c)` is `Register(c, sport[c])`. The port is not in
    `InUse`, because every live client's session is holding (this is
    `ClientsMatchSessions`) and holds a distinct port (`PortsDistinct`).
  - `DisableClient(c)` is `Unregister(c)`. The client is registered
    (`ActiveRegistered`) and live.
  - `CleanupClients` drops only disabled clients, so it is a stutter
    (`RestrictFacts`).
  - Every other action leaves `clients` alone.

The proof reuses `IInv` and `NextIInv` from `StoreProofs`. So the refinement
also rests on the spec's caller order, in which the session disables the
client before releasing its port: the mutant that releases first fails `AbsSpec` in TLC.

## Proofs for Connections (`ConnectionsProofs.tla`)

- **`THEOREM TypeCorrect == Spec => []TypeOK`**
- **`THEOREM HostsAlwaysSound == Spec => []HostsSound`**
- **`THEOREM PumpDrainsOnClose == Spec => []DrainedOnClose`**

They hold for every set of ids, hosts and shards and every `MaxSends`, with
no assumption on the constants beyond `ConnectionsAssumption`. The inductive
invariant `IInv` has these parts:

- `ClientsMatch`: the clients map holds exactly the sessions between
  `clients.insert` and `clients.remove`, each under its own host.
- `HostsLive`: a hosts entry names a session that is active, or inside
  `remove_by_id` before its `hosts.remove`, and that was built with that
  host.
  - This is where the call order matters. `add` inserts into clients first,
    and both removals drop the host entry first.
  - Because a session's host entry names it only under its own host,
    `hosts.remove(&client.host)` removes every entry that names it.
- `PumpSpawned`: before `build` there is no pump.
- `QueueInv`: what the pump wrote, followed by the queue, is what
  `send_to_client` accepted (`wsq \o chan = sent`), unless the pump failed.
  A pump that saw `None` has an empty queue.

Two sequence lemmas carry the pump steps. They are proved from the library's
`SequenceTheorems`:

- `ConcatAppend`: a send appends to both sides.
- `ConcatHeadTail`: a forwarded packet moves from the head of the queue to
  the end of what was written.

## Proof for StoreChannels (`StoreChannelsProofs.tla`)

**`THEOREM TypeCorrect == Spec => []TypeOK`**: a channel never holds more
than `Cap`, and each lock has at most one writer. It needs `SendInv`: a send
in progress has a target and is under its bound.

### Only model-checked

- `StallIsolated`. It is a liveness property under fairness, and reasoning
  about it needs ENABLED, which is out of the prover's reach.
- The violated properties (findings), which are false by design of the code.

## Not modelled, and why

- **`Connections::clear`:** called only by the test harness before a server
  starts. **`get_stream_ids`, `len_*`:** they only read. `get` and
  `find_by_host` are the lookups `HostsSound` is stated with.
- **The pump's cleanup after its loop** (TODO at `connected_clients.rs:62`):
  nothing happens there, and the model shows the consequence (`PumpFail`
  leaves the client registered).
- **CLI mains and the integration tests:** I/O wiring with no shared state.
- **Client control session, local streams, packet codec:** not under `src/`.
- **Message content in StoreChannels:** a message is abstracted to its
  presence in the channel, and only blocking is asked about.

## Plan

1. Done:
   - `Store` with its proofs, and `Connections`.
   - `StoreChannels`, for the locks held across channel sends.
   - `PortRegistry`, with the proved refinement from `Store`.
2. Done: proofs of every invariant the passing runs check.
3. An abstract spec for the session registry and its pump (a FIFO channel
   per session), with a refinement from `Connections`.
4. A model of the per-stream FIFO across both sessions (spec 3, invariant 5),
   from the spec.
