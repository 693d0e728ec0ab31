--------------------------- MODULE StoreChannels ---------------------------
(***************************************************************************)
(* The Store's two RwLocks and the per-entity bounded channels behind     *)
(* Store::send_to_remote and Store::send_to_client                         *)
(* (ownserver_server/src/store.rs).  In both methods the write guard is a *)
(* temporary of the match scrutinee, so it lives until the end of the     *)
(* match, across the .await of the channel send.                          *)
(*                                                                         *)
(* Tasks (spec 4.5, 4.6; the callers are not under src/):                  *)
(*   In(c)  the control session's inbound pump of client c: Data(s, b)     *)
(*          -> send_to_remote(s)                                           *)
(*   Rd(s)  the public reader task of stream s: Data -> send_to_client of  *)
(*          its owner; on a socket error disable_remote(s)                 *)
(*   Ses(c) the termination of client c's session: disable_client, then    *)
(*          cleanup (streams, then clients)                                *)
(* Each entity's channel is drained by its consumer (the stream's writer  *)
(* task, the client's websocket pump), which stops for good when the peer *)
(* at the other end stops reading (the constant Stalled).  A message is   *)
(* abstracted to its presence: a channel is the number it holds.          *)
(* Tokio's RwLock grants waiters in FIFO order, so a waiting task gets the *)
(* lock if it is released often enough: strong fairness on acquisition.   *)
(***************************************************************************)
EXTENDS Naturals

CONSTANTS
  ClientIds, StreamIds,
  Owner,       \* the client of each stream
  Cap,         \* capacity of every bounded channel
  MaxMsgs,     \* bound on messages each task sends
  Stalled,     \* entities whose peer never reads again
  None

ASSUME StoreChannelsAssumption ==
  /\ Owner \in [StreamIds -> ClientIds]
  /\ Cap \in Nat \ {0} /\ MaxMsgs \in Nat
  /\ Stalled \subseteq StreamIds \cup ClientIds
  /\ None \notin StreamIds \cup ClientIds

Ents == StreamIds \cup ClientIds
Locks == {"streams", "clients"}
In(c) == <<"in", c>>
Rd(s) == <<"rd", s>>
Ses(c) == <<"ses", c>>
Tasks == {In(c) : c \in ClientIds} \cup {Rd(s) : s \in StreamIds}
           \cup {Ses(c) : c \in ClientIds}

VARIABLES
  holder,   \* holder of each RwLock (all the calls modelled take write())
  reg,      \* each entity in its HashMap: "live" | "disabled" | "absent"
  chan,     \* messages queued in each entity's bounded channel
  pc,       \* each task's program counter
  tgt,      \* the entity a task's current call is about
  cnt       \* messages each task has sent

vars == <<holder, reg, chan, pc, tgt, cnt>>

TypeOK ==
  /\ holder \in [Locks -> Tasks \cup {None}]
  /\ reg \in [Ents -> {"live", "disabled", "absent"}]
  /\ chan \in [Ents -> 0..Cap]
  /\ pc \in [Tasks -> {"idle", "want", "hold", "wantdis", "active", "dis",
                       "cs", "cc", "done"}]
  /\ tgt \in [Tasks -> Ents \cup {None}]
  /\ cnt \in [Tasks -> 0..MaxMsgs]

Init ==
  /\ holder = [l \in Locks |-> None]
  /\ reg = [e \in Ents |-> "live"]
  /\ chan = [e \in Ents |-> 0]
  /\ pc = [t \in Tasks |-> IF t[1] = "ses" THEN "active" ELSE "idle"]
  /\ tgt = [t \in Tasks |-> None]
  /\ cnt = [t \in Tasks |-> 0]

\* The lock a send call of task t takes, and the map its target lives in.
SendLock(t) == IF t[1] = "in" THEN "streams" ELSE "clients"

-----------------------------------------------------------------------------
(* A send call: In(c) sends Data to one of c's streams, Rd(s) to Owner[s].  *)
StartSend(t) ==
  /\ pc[t] = "idle" /\ t[1] \in {"in", "rd"} /\ cnt[t] < MaxMsgs
  /\ \E e \in IF t[1] = "in" THEN {s \in StreamIds : Owner[s] = t[2]}
                             ELSE {Owner[t[2]]} :
        tgt' = [tgt EXCEPT ![t] = e]
  /\ pc' = [pc EXCEPT ![t] = "want"]
  /\ UNCHANGED <<holder, reg, chan, cnt>>

\* self.streams.write().await (send_to_remote) or self.clients.write().await
\* (send_to_client): the guard is taken and kept.
Acquire(t) ==
  /\ pc[t] = "want" /\ holder[SendLock(t)] = None
  /\ holder' = [holder EXCEPT ![SendLock(t)] = t]
  /\ pc' = [pc EXCEPT ![t] = "hold"]
  /\ UNCHANGED <<reg, chan, tgt, cnt>>

\* Mutant: the miss path returns but the guard is not dropped.
SendMissKeepsLock(t) ==
  /\ pc[t] = "hold" /\ reg[tgt[t]] # "live"
  /\ pc' = [pc EXCEPT ![t] = "idle"]
  /\ cnt' = [cnt EXCEPT ![t] = @ + 1]
  /\ UNCHANGED <<holder, reg, chan, tgt>>

\* get_mut misses (the entry was swept): Err(StreamNotAvailable /
\* ClientNotAvailable).  A disabled entry refuses too (spec 4.3, 4.4).  The
\* guard is dropped at the end of the match.
SendMiss(t) ==
  /\ pc[t] = "hold" /\ reg[tgt[t]] # "live"
  /\ holder' = [holder EXCEPT ![SendLock(t)] = None]
  /\ pc' = [pc EXCEPT ![t] = "idle"]
  /\ cnt' = [cnt EXCEPT ![t] = @ + 1]
  /\ UNCHANGED <<reg, chan, tgt>>

\* Mutant: the channel send does not wait for capacity.
SendEnqueueUnbounded(t) ==
  /\ pc[t] = "hold" /\ reg[tgt[t]] = "live"
  /\ chan' = [chan EXCEPT ![tgt[t]] = @ + 1]
  /\ holder' = [holder EXCEPT ![SendLock(t)] = None]
  /\ pc' = [pc EXCEPT ![t] = "idle"]
  /\ cnt' = [cnt EXCEPT ![t] = @ + 1]
  /\ UNCHANGED <<reg, tgt>>

\* stream.send_to_remote(..).await / client.send_to_client(..).await: the
\* bounded send completes once the channel has room, still under the guard.
SendEnqueue(t) ==
  /\ pc[t] = "hold" /\ reg[tgt[t]] = "live" /\ chan[tgt[t]] < Cap
  /\ chan' = [chan EXCEPT ![tgt[t]] = @ + 1]
  /\ holder' = [holder EXCEPT ![SendLock(t)] = None]
  /\ pc' = [pc EXCEPT ![t] = "idle"]
  /\ cnt' = [cnt EXCEPT ![t] = @ + 1]
  /\ UNCHANGED <<reg, tgt>>

\* The consumer of entity e (writer task, websocket pump) takes a message.
Drain(e) ==
  /\ chan[e] > 0 /\ e \notin Stalled
  /\ chan' = [chan EXCEPT ![e] = @ - 1]
  /\ UNCHANGED <<holder, reg, pc, tgt, cnt>>

-----------------------------------------------------------------------------
(* disable_remote and the session's disable_client and cleanup hold their *)
(* guard only over non-blocking map work: one step each, once the lock is  *)
(* free.                                                                   *)

\* The reader task hits a socket error and will call disable_remote.
ReaderFails(s) ==
  /\ pc[Rd(s)] = "idle"
  /\ pc' = [pc EXCEPT ![Rd(s)] = "wantdis"]
  /\ UNCHANGED <<holder, reg, chan, tgt, cnt>>

DisableRemote(s) ==
  /\ pc[Rd(s)] = "wantdis" /\ holder["streams"] = None
  /\ reg' = IF reg[s] = "absent" THEN reg ELSE [reg EXCEPT ![s] = "disabled"]
  /\ pc' = [pc EXCEPT ![Rd(s)] = "done"]
  /\ UNCHANGED <<holder, chan, tgt, cnt>>

\* The tasks under client c's session's cancellation handle (spec 161): its
\* inbound pump and the reader tasks of its streams.
SessionTasks(c) == {In(c)} \cup {Rd(s) : s \in {x \in StreamIds : Owner[x] = c}}

\* Mutant: the session ends without cancelling its tasks.
TerminateKeepsTasks(c) ==
  /\ pc[Ses(c)] = "active"
  /\ pc' = [pc EXCEPT ![Ses(c)] = "dis"]
  /\ UNCHANGED <<holder, reg, chan, tgt, cnt>>

\* The control session of c ends (any sub-task exited, spec 126) and cancels
\* its tasks: each is dropped at its await point, and a write guard it held
\* across a parked channel send is dropped with it.
Terminate(c) ==
  /\ pc[Ses(c)] = "active"
  /\ pc' = [t \in Tasks |-> IF t = Ses(c) THEN "dis"
                            ELSE IF t \in SessionTasks(c) THEN "done" ELSE pc[t]]
  /\ holder' = [l \in Locks |-> IF holder[l] \in SessionTasks(c) THEN None
                                                               ELSE holder[l]]
  /\ UNCHANGED <<reg, chan, tgt, cnt>>

DisableClient(c) ==
  /\ pc[Ses(c)] = "dis" /\ holder["clients"] = None
  /\ reg' = IF reg[c] = "absent" THEN reg ELSE [reg EXCEPT ![c] = "disabled"]
  /\ pc' = [pc EXCEPT ![Ses(c)] = "cs"]
  /\ UNCHANGED <<holder, chan, tgt, cnt>>

\* cleanup: streams.write().await.retain(..), then clients.write().await.
Swept(D) == [e \in Ents |-> IF e \in D /\ reg[e] = "disabled" THEN "absent" ELSE reg[e]]

CleanupStreams(c) ==
  /\ pc[Ses(c)] = "cs" /\ holder["streams"] = None
  /\ reg' = Swept(StreamIds)
  /\ pc' = [pc EXCEPT ![Ses(c)] = "cc"]
  /\ UNCHANGED <<holder, chan, tgt, cnt>>

CleanupClients(c) ==
  /\ pc[Ses(c)] = "cc" /\ holder["clients"] = None
  /\ reg' = Swept(ClientIds)
  /\ pc' = [pc EXCEPT ![Ses(c)] = "done"]
  /\ UNCHANGED <<holder, chan, tgt, cnt>>

-----------------------------------------------------------------------------
Next ==
  \/ \E t \in Tasks : StartSend(t) \/ Acquire(t) \/ SendMiss(t) \/ SendEnqueue(t)
  \/ \E e \in Ents : Drain(e)
  \/ \E s \in StreamIds : ReaderFails(s) \/ DisableRemote(s)
  \/ \E c \in ClientIds :
        Terminate(c) \/ DisableClient(c) \/ CleanupStreams(c) \/ CleanupClients(c)

\* Lock acquisition is strongly fair (tokio's FIFO RwLock); a task that can
\* finish its call without a lock, and a consumer whose peer reads, run.
\* A client whose websocket peer stops reading never sees a Ping, so no Pong
\* comes back and the liveness check ends its session (spec 125).  A stalled
\* public peer has no such check: its client's session may run for ever.
Fairness ==
  /\ \A t \in Tasks : SF_vars(Acquire(t)) /\ WF_vars(SendMiss(t) \/ SendEnqueue(t))
  /\ \A e \in Ents : WF_vars(Drain(e))
  /\ \A s \in StreamIds : SF_vars(DisableRemote(s))
  /\ \A c \in ClientIds : SF_vars(DisableClient(c) \/ CleanupStreams(c) \/ CleanupClients(c))
  /\ \A c \in ClientIds \cap Stalled : WF_vars(Terminate(c))

Spec == Init /\ [][Next]_vars /\ Fairness

-----------------------------------------------------------------------------
(* The entity a task is waiting on in its current call: the target of a    *)
(* send; a disable or a cleanup waits on no channel.                       *)
InCall(t) == pc[t] \in {"want", "hold", "wantdis", "dis", "cs", "cc"}
Waits(t) == IF pc[t] \in {"want", "hold"} THEN tgt[t] ELSE None

(* Stall isolation (spec 5 "no global lock held across suspension points", *)
(* 8.2 "a stall on one stream does not affect another"): every Store call  *)
(* returns unless it is itself sending to an entity whose peer has stopped *)
(* reading.  send_to_remote and send_to_client keep the registry's write    *)
(* guard across the channel send, so one full channel can hold up the calls *)
(* of every other session on that lock.                                     *)
StallIsolated ==
  \A t \in Tasks : (InCall(t) /\ Waits(t) \notin Stalled) ~> ~InCall(t)

=============================================================================
