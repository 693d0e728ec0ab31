------------------------- MODULE ConnectionsProofs -------------------------
(***************************************************************************)
(* Proofs about the Connections model (proxy_server/src/                   *)
(* connected_clients.rs) for every set of ids, hosts and shards and every  *)
(* send bound.  HostsSound and DrainedOnClose are not inductive; they      *)
(* follow from IInv, which adds what the order of the calls in add,        *)
(* remove and remove_by_id, and the pump loop, keep true.                  *)
(***************************************************************************)
EXTENDS Connections, SequenceTheorems, TLAPS

\* Sessions between clients.insert and clients.remove: the ones whose id is
\* in the clients map.  remove_by_id never gets to its clients.remove.
Registered == {"adding", "active", "removing", "rbi_held", "rbi_removing"}

(* The clients map holds exactly the registered sessions, each under the  *)
(* host it was built with.                                                *)
ClientsMatch ==
  \A c \in Ids : /\ c \in DOMAIN cmap <=> sess[c] \in Registered
                 /\ c \in DOMAIN cmap => cmap[c] = host[c]

(* A hosts entry names a session that is active, or inside remove_by_id   *)
(* before its hosts.remove, and that was built with that host.            *)
HostsLive ==
  \A h \in DOMAIN hmap : /\ sess[hmap[h]] \in {"active", "rbi_held"}
                         /\ host[hmap[h]] = h

(* What the pump wrote, followed by what is still queued, is what         *)
(* send_to_client accepted, unless the pump broke out on a failure; and a *)
(* pump that saw None left nothing queued.                                *)
QueueInv ==
  \A c \in Ids : /\ pump[c] # "failed" => wsq[c] \o chan[c] = sent[c]
                 /\ pump[c] = "closed" => chan[c] = <<>>

(* ConnectedClient::build creates the channel and spawns the pump in one *)
(* call: before it there is no pump.                                      *)
PumpSpawned == \A c \in Ids : sess[c] = "new" => pump[c] = "none"

IInv == TypeOK /\ ClientsMatch /\ HostsLive /\ PumpSpawned /\ QueueInv

-----------------------------------------------------------------------------
(* Sequence facts the pump steps need.                                     *)

\* send_to_client appends to the channel: appending to the queue appends
\* to what was written followed by the queue.
LEMMA ConcatAppend ==
  ASSUME NEW s \in Seq(Nat), NEW t \in Seq(Nat), NEW x \in Nat
  PROVE  s \o Append(t, x) = Append(s \o t, x)
<1>1. Append(t, x) = t \o <<x>>
  BY AppendIsConcat
<1>2. s \o t \in Seq(Nat) /\ <<x>> \in Seq(Nat)
  BY ConcatProperties
<1>3. Append(s \o t, x) = (s \o t) \o <<x>>
  BY <1>2, AppendIsConcat
<1>4. (s \o t) \o <<x>> = s \o (t \o <<x>>)
  BY <1>2, ConcatAssociative
<1>. QED
  BY <1>1, <1>3, <1>4

\* A pump step moves the head of the queue to the end of what was written.
LEMMA ConcatHeadTail ==
  ASSUME NEW s \in Seq(Nat), NEW t \in Seq(Nat), t # <<>>
  PROVE  Append(s, Head(t)) \o Tail(t) = s \o t
<1>1. Head(t) \in Nat /\ Tail(t) \in Seq(Nat) /\ Len(Tail(t)) = Len(t) - 1
      /\ \A i \in 1 .. Len(Tail(t)) : Tail(t)[i] = t[i + 1]
  BY HeadTailProperties
<1>2. Append(s, Head(t)) \in Seq(Nat) /\ Len(Append(s, Head(t))) = Len(s) + 1
      /\ \A i \in 1 .. Len(s) : Append(s, Head(t))[i] = s[i]
      /\ Append(s, Head(t))[Len(s) + 1] = Head(t)
  BY <1>1, AppendProperties
<1>3. Len(t) \in Nat \ {0}
  BY EmptySeq
<1>. QED
  BY <1>1, <1>2, <1>3, ConcatProperties, SeqEqual, LenProperties

-----------------------------------------------------------------------------
LEMMA InitIInv == Init => IInv
<1> SUFFICES ASSUME Init PROVE IInv
  OBVIOUS
<1>1. DOMAIN cmap = {} /\ DOMAIN hmap = {} /\ <<>> \in Seq(Nat)
  BY EmptySeq DEF Init
<1>2. TypeOK
  <2>1. <<>> \in Seq(Hosts) /\ <<>> \in Seq(Ids)
    BY EmptySeq
  <2>2. <<>> \in [1 .. 0 -> Hosts] /\ <<>> \in [1 .. 0 -> Ids]
    BY <2>1, EmptySeq, LenProperties
  <2>3. DOMAIN cmap \subseteq Ids /\ cmap \in [DOMAIN cmap -> Hosts]
        /\ DOMAIN hmap \subseteq Hosts /\ hmap \in [DOMAIN hmap -> Ids]
    BY <1>1, <2>2 DEF Init
  <2>4. /\ chan \in [Ids -> Seq(Nat)] /\ sent \in [Ids -> Seq(Nat)]
        /\ wsq \in [Ids -> Seq(Nat)]
    BY <1>1 DEF Init
  <2>5. /\ sess \in [Ids -> SessPC] /\ held \subseteq Ids
        /\ txopen \in [Ids -> BOOLEAN] /\ wsdead \in [Ids -> BOOLEAN]
        /\ pump \in [Ids -> {"none", "running", "closed", "failed"}]
    BY DEF Init, SessPC
  <2>. QED
    BY <2>3, <2>4, <2>5 DEF Init, TypeOK
<1>3. QueueInv
  BY <1>1, ConcatEmptySeq DEF Init, QueueInv
<1>. QED
  BY <1>1, <1>2, <1>3 DEF Init, IInv, ClientsMatch, HostsLive, PumpSpawned,
                          Registered

-----------------------------------------------------------------------------
(* Type correctness, one case per action.                                  *)

LEMMA TypeStep == TypeOK /\ [Next]_vars => TypeOK'
<1> SUFFICES ASSUME TypeOK, [Next]_vars PROVE TypeOK'
  OBVIOUS
<1>1. ASSUME NEW c \in Ids, Build(c) PROVE TypeOK'
  BY <1>1 DEF Build, TypeOK, SessPC
<1>2. ASSUME NEW c \in Ids, SendToClient(c) PROVE TypeOK'
  <2>1. Len(sent[c]) + 1 \in Nat
    BY LenProperties DEF TypeOK
  <2>2. chan' \in [Ids -> Seq(Nat)] /\ sent' \in [Ids -> Seq(Nat)]
    BY <1>2, <2>1, AppendProperties DEF SendToClient, TypeOK
  <2>. QED
    BY <1>2, <2>2 DEF SendToClient, TypeOK
<1>3. ASSUME NEW c \in Ids, WsFail(c) PROVE TypeOK'
  BY <1>3 DEF WsFail, TypeOK
<1>4. ASSUME NEW c \in Ids, PumpForward(c) PROVE TypeOK'
  <2>1. Head(chan[c]) \in Nat /\ Tail(chan[c]) \in Seq(Nat)
    BY <1>4, HeadTailProperties DEF PumpForward, TypeOK
  <2>2. wsq' \in [Ids -> Seq(Nat)] /\ chan' \in [Ids -> Seq(Nat)]
    BY <1>4, <2>1, AppendProperties DEF PumpForward, TypeOK
  <2>. QED
    BY <1>4, <2>2 DEF PumpForward, TypeOK
<1>5. ASSUME NEW c \in Ids, PumpFail(c) PROVE TypeOK'
  <2>1. chan' \in [Ids -> Seq(Nat)]
    BY <1>5, EmptySeq DEF PumpFail, TypeOK
  <2>. QED
    BY <1>5, <2>1 DEF PumpFail, TypeOK
<1>6. ASSUME NEW c \in Ids, PumpEnd(c) PROVE TypeOK'
  BY <1>6 DEF PumpEnd, TypeOK
<1>7. ASSUME NEW c \in Ids, AddClients(c) PROVE TypeOK'
  <2>1. DOMAIN cmap' \subseteq Ids /\ cmap' \in [DOMAIN cmap' -> Hosts]
    BY <1>7 DEF AddClients, Put, TypeOK
  <2>. QED
    BY <1>7, <2>1 DEF AddClients, TypeOK, SessPC
<1>8. ASSUME NEW c \in Ids, AddHosts(c) PROVE TypeOK'
  <2>1. DOMAIN hmap' \subseteq Hosts /\ hmap' \in [DOMAIN hmap' -> Ids]
    BY <1>8 DEF AddHosts, Put, TypeOK
  <2>. QED
    BY <1>8, <2>1 DEF AddHosts, TypeOK, SessPC
<1>9. ASSUME NEW c \in Ids, RemoveByIdGet(c) PROVE TypeOK'
  BY <1>9 DEF RemoveByIdGet, TypeOK, SessPC
<1>10. ASSUME NEW c \in Ids, RemoveHosts(c) PROVE TypeOK'
  <2>1. DOMAIN hmap' \subseteq Hosts /\ hmap' \in [DOMAIN hmap' -> Ids]
    BY <1>10 DEF RemoveHosts, Drop, Restrict, TypeOK
  <2>. QED
    BY <1>10, <2>1 DEF RemoveHosts, TypeOK, SessPC
<1>11. ASSUME NEW c \in Ids, RemoveClients(c) PROVE TypeOK'
  <2>1. DOMAIN cmap' \subseteq Ids /\ cmap' \in [DOMAIN cmap' -> Hosts]
    BY <1>11 DEF RemoveClients, Drop, Restrict, TypeOK
  <2>. QED
    BY <1>11, <2>1 DEF RemoveClients, TypeOK, SessPC
<1>12. ASSUME NEW c \in Ids, RemoveByIdHosts(c) PROVE TypeOK'
  <2>1. DOMAIN hmap' \subseteq Hosts /\ hmap' \in [DOMAIN hmap' -> Ids]
    BY <1>12 DEF RemoveByIdHosts, Drop, Restrict, TypeOK
  <2>. QED
    BY <1>12, <2>1 DEF RemoveByIdHosts, TypeOK, SessPC
<1>13. CASE UNCHANGED vars
  BY <1>13 DEF vars, TypeOK
<1>. QED
  BY <1>1, <1>2, <1>3, <1>4, <1>5, <1>6, <1>7, <1>8, <1>9, <1>10, <1>11,
     <1>12, <1>13 DEF Next, PumpStep, Teardown

-----------------------------------------------------------------------------
(* The pump's queue.                                                       *)

LEMMA SpawnStep == TypeOK /\ PumpSpawned /\ [Next]_vars => PumpSpawned'
<1> SUFFICES ASSUME TypeOK, PumpSpawned, [Next]_vars PROVE PumpSpawned'
  OBVIOUS
<1>1. ASSUME NEW c \in Ids,
             \/ Build(c) \/ AddClients(c) \/ AddHosts(c) \/ RemoveByIdGet(c)
             \/ RemoveHosts(c) \/ RemoveClients(c) \/ RemoveByIdHosts(c)
      PROVE  PumpSpawned'
  BY <1>1 DEF Build, AddClients, AddHosts, RemoveByIdGet, RemoveHosts,
              RemoveClients, RemoveByIdHosts, PumpSpawned, TypeOK
<1>2. ASSUME NEW c \in Ids,
             \/ SendToClient(c) \/ WsFail(c) \/ PumpForward(c) \/ PumpFail(c)
             \/ PumpEnd(c)
      PROVE  PumpSpawned'
  BY <1>2 DEF SendToClient, WsFail, PumpForward, PumpFail, PumpEnd,
              PumpSpawned, TypeOK
<1>3. CASE UNCHANGED vars
  BY <1>3 DEF vars, PumpSpawned
<1>. QED
  BY <1>1, <1>2, <1>3 DEF Next, PumpStep, Teardown

LEMMA QueueStep ==
  TypeOK /\ PumpSpawned /\ QueueInv /\ [Next]_vars => QueueInv'
<1> SUFFICES ASSUME TypeOK, PumpSpawned, QueueInv, [Next]_vars PROVE QueueInv'
  OBVIOUS
<1>1. ASSUME NEW c \in Ids, SendToClient(c) PROVE QueueInv'
  <2>1. wsq[c] \o chan[c] = sent[c]
    BY <1>1 DEF SendToClient, QueueInv
  <2>2. Len(sent[c]) + 1 \in Nat
    BY LenProperties DEF TypeOK
  <2>3. wsq[c] \in Seq(Nat) /\ chan[c] \in Seq(Nat)
    BY DEF TypeOK
  <2>4. wsq[c] \o Append(chan[c], Len(sent[c]) + 1)
          = Append(wsq[c] \o chan[c], Len(sent[c]) + 1)
    BY <2>2, <2>3, ConcatAppend, Zenon
  <2>5. wsq[c] \o Append(chan[c], Len(sent[c]) + 1)
          = Append(sent[c], Len(sent[c]) + 1)
    BY <2>1, <2>4
  <2>. QED
    BY <1>1, <2>5 DEF SendToClient, QueueInv, TypeOK
<1>2. ASSUME NEW c \in Ids, PumpForward(c) PROVE QueueInv'
  <2>1. wsq[c] \o chan[c] = sent[c]
    BY <1>2 DEF PumpForward, QueueInv
  <2>2. Append(wsq[c], Head(chan[c])) \o Tail(chan[c]) = sent[c]
    BY <1>2, <2>1, ConcatHeadTail DEF PumpForward, TypeOK
  <2>. QED
    BY <1>2, <2>2 DEF PumpForward, QueueInv, TypeOK
<1>3. ASSUME NEW c \in Ids, PumpFail(c) PROVE QueueInv'
  BY <1>3 DEF PumpFail, QueueInv, TypeOK
<1>4. ASSUME NEW c \in Ids, Build(c) PROVE QueueInv'
  BY <1>4 DEF Build, QueueInv, PumpSpawned, TypeOK
<1>7. ASSUME NEW c \in Ids, PumpEnd(c) PROVE QueueInv'
  BY <1>7 DEF PumpEnd, QueueInv, TypeOK
<1>5. ASSUME NEW c \in Ids,
             \/ WsFail(c) \/ AddClients(c) \/ AddHosts(c) \/ RemoveByIdGet(c)
             \/ RemoveHosts(c) \/ RemoveClients(c) \/ RemoveByIdHosts(c)
      PROVE  UNCHANGED <<pump, wsq, chan, sent>>
  BY <1>5 DEF WsFail, AddClients, AddHosts, RemoveByIdGet, RemoveHosts,
              RemoveClients, RemoveByIdHosts
<1>6. CASE UNCHANGED <<pump, wsq, chan, sent>>
  BY <1>6 DEF QueueInv
<1>. QED
  BY <1>1, <1>2, <1>3, <1>4, <1>5, <1>6, <1>7 DEF Next, PumpStep, Teardown, vars

-----------------------------------------------------------------------------
(* The two maps.  Every step of add, remove and remove_by_id keeps the     *)
(* clients map equal to the registered sessions, and the hosts map         *)
(* pointing at active sessions under their own host.                       *)

RegInv == ClientsMatch /\ HostsLive

LEMMA RegistryStep == TypeOK /\ RegInv /\ [Next]_vars => RegInv'
<1> SUFFICES ASSUME TypeOK, ClientsMatch, HostsLive, [Next]_vars
             PROVE  ClientsMatch' /\ HostsLive'
  BY DEF RegInv
<1>1. ASSUME NEW c \in Ids, Build(c) PROVE ClientsMatch' /\ HostsLive'
  BY <1>1 DEF Build, ClientsMatch, HostsLive, Registered, TypeOK
<1>2. ASSUME NEW c \in Ids, AddClients(c) PROVE ClientsMatch' /\ HostsLive'
  <2>1. ClientsMatch'
    BY <1>2 DEF AddClients, Put, ClientsMatch, Registered, TypeOK
  <2>2. HostsLive'
    BY <1>2 DEF AddClients, HostsLive, TypeOK
  <2>. QED
    BY <2>1, <2>2
<1>3. ASSUME NEW c \in Ids, AddHosts(c) PROVE ClientsMatch' /\ HostsLive'
  <2>1. ClientsMatch'
    BY <1>3 DEF AddHosts, ClientsMatch, Registered, TypeOK
  <2>2. HostsLive'
    BY <1>3 DEF AddHosts, Put, HostsLive, TypeOK
  <2>. QED
    BY <2>1, <2>2
<1>4. ASSUME NEW c \in Ids, RemoveByIdGet(c) PROVE ClientsMatch' /\ HostsLive'
  BY <1>4 DEF RemoveByIdGet, ClientsMatch, HostsLive, Registered, TypeOK
<1>5. ASSUME NEW c \in Ids, RemoveHosts(c) PROVE ClientsMatch' /\ HostsLive'
  <2>1. ClientsMatch'
    BY <1>5 DEF RemoveHosts, ClientsMatch, Registered, TypeOK
  <2>2. HostsLive'
    BY <1>5 DEF RemoveHosts, Drop, Restrict, HostsLive, TypeOK
  <2>. QED
    BY <2>1, <2>2
<1>6. ASSUME NEW c \in Ids, RemoveClients(c) PROVE ClientsMatch' /\ HostsLive'
  <2>1. ClientsMatch'
    BY <1>6 DEF RemoveClients, Drop, Restrict, ClientsMatch, Registered, TypeOK
  <2>2. HostsLive'
    BY <1>6 DEF RemoveClients, HostsLive, TypeOK
  <2>. QED
    BY <2>1, <2>2
<1>7. ASSUME NEW c \in Ids, RemoveByIdHosts(c) PROVE ClientsMatch' /\ HostsLive'
  <2>1. cmap[c] = host[c]
    BY <1>7 DEF RemoveByIdHosts, ClientsMatch, Registered
  <2>2. ClientsMatch'
    BY <1>7 DEF RemoveByIdHosts, ClientsMatch, Registered, TypeOK
  <2>3. HostsLive'
    BY <1>7, <2>1 DEF RemoveByIdHosts, Drop, Restrict, HostsLive, TypeOK
  <2>. QED
    BY <2>2, <2>3
<1>8. ASSUME NEW c \in Ids,
             \/ SendToClient(c) \/ WsFail(c) \/ PumpForward(c) \/ PumpFail(c)
             \/ PumpEnd(c)
      PROVE  UNCHANGED <<sess, host, cmap, hmap>>
  BY <1>8 DEF SendToClient, WsFail, PumpForward, PumpFail, PumpEnd
<1>9. CASE UNCHANGED <<sess, host, cmap, hmap>>
  BY <1>9 DEF ClientsMatch, HostsLive
<1>. QED
  BY <1>1, <1>2, <1>3, <1>4, <1>5, <1>6, <1>7, <1>8, <1>9
  DEF Next, PumpStep, Teardown, vars

-----------------------------------------------------------------------------
LEMMA NextIInv == IInv /\ [Next]_vars => IInv'
BY TypeStep, SpawnStep, QueueStep, RegistryStep DEF IInv, RegInv

(* Every state of the session registry is well typed, for every set of    *)
(* ids, hosts and shards: the DashMap calls of add, remove and             *)
(* remove_by_id keep both maps partial functions of the right kind, and   *)
(* the pump's channel and websocket hold packets only.                     *)
THEOREM TypeCorrect == Spec => []TypeOK
<1>1. IInv => TypeOK
  BY DEF IInv
<1>. QED
  BY InitIInv, NextIInv, <1>1, PTL DEF Spec

(* find_by_host only ever returns a client that get still returns, built  *)
(* with that host, for every number of sessions and hosts: add inserts    *)
(* into clients before hosts, and remove and remove_by_id drop the host   *)
(* entry before (or instead of) the clients entry.                         *)
THEOREM HostsAlwaysSound == Spec => []HostsSound
<1>1. IInv => HostsSound
  <2> SUFFICES ASSUME IInv, NEW h \in Hosts, NEW c \in FindByHost(h)
               PROVE  Get(c) = {h}
    BY DEF HostsSound
  <2>1. h \in DOMAIN hmap /\ c = hmap[h]
    BY DEF FindByHost
  <2>2. sess[c] \in {"active", "rbi_held"} /\ host[c] = h
    BY <2>1 DEF IInv, HostsLive
  <2>3. c \in Ids
    BY <2>1 DEF IInv, TypeOK
  <2>4. c \in DOMAIN cmap /\ cmap[c] = h
    BY <2>2, <2>3 DEF IInv, ClientsMatch, Registered
  <2>. QED
    BY <2>4 DEF Get
<1>. QED
  BY InitIInv, NextIInv, <1>1, PTL DEF Spec

(* A pump that left its loop on None (after close_channel) has written to *)
(* the websocket every packet send_to_client accepted, in the order they  *)
(* were accepted, for every send bound: the unbounded channel is drained  *)
(* before None, and no send succeeds once it is closed.                    *)
THEOREM PumpDrainsOnClose == Spec => []DrainedOnClose
<1>1. IInv => DrainedOnClose
  <2> SUFFICES ASSUME IInv, NEW c \in Ids, pump[c] = "closed"
               PROVE  wsq[c] = sent[c]
    BY DEF DrainedOnClose
  <2>1. wsq[c] \o chan[c] = sent[c] /\ chan[c] = <<>>
    BY DEF IInv, QueueInv
  <2>2. wsq[c] \in Seq(Nat)
    BY DEF IInv, TypeOK
  <2>. QED
    BY <2>1, <2>2, ConcatEmptySeq
<1>. QED
  BY InitIInv, NextIInv, <1>1, PTL DEF Spec

=============================================================================
