---------------------------- MODULE StoreProofs ----------------------------
(* Proofs about the Store registry: type correctness and port exclusivity, *)
(* for every set of ids, addresses and ports.                              *)
EXTENDS Store, TLAPS

\* The sessions that hold their allocated port: from allocate_port until
\* release_port.
Holding == {"alloc", "adding", "active", "disabled"}

(* Strengthening of PortExclusive, in four parts.  A port held by a       *)
(* session is out of the free set and held by no other session; a          *)
(* registered client carries the port of its session and is live exactly  *)
(* while its session is adding or active; an adding or active session is   *)
(* registered (cleanup only drops disabled clients).                       *)
PortHeld ==
  \A c \in ClientIds : sess[c] \in Holding => sport[c] \in Ports \ free
PortsDistinct ==
  \A c, d \in ClientIds :
     c # d /\ sess[c] \in Holding /\ sess[d] \in Holding => sport[c] # sport[d]
ClientsMatchSessions ==
  \A c \in DOMAIN clients :
     /\ sess[c] \notin {"new", "alloc"}
     /\ clients[c].port = sport[c]
     /\ (clients[c].disabled <=> sess[c] \notin {"adding", "active"})
ActiveRegistered ==
  \A c \in ClientIds : sess[c] \in {"adding", "active"} => c \in DOMAIN clients

PortInv == PortHeld /\ PortsDistinct /\ ClientsMatchSessions /\ ActiveRegistered

(* An accept task past its first step has recorded its owner and peer     *)
(* address; a find in progress holds the id it read from addrs_map.        *)
TaskInv ==
  /\ \A s \in StreamIds : conn[s].pc # "idle" =>
        conn[s].client \in ClientIds /\ conn[s].addr \in Addrs
  /\ \A c \in ClientIds : finding[c].pc = "reading" => finding[c].sid \in StreamIds

IInv == TypeOK /\ PortInv /\ TaskInv

-----------------------------------------------------------------------------
LEMMA InitIInv == Init => IInv
BY StoreAssumption DEF Init, IInv, TypeOK, PortInv, PortHeld, PortsDistinct,
                       ClientsMatchSessions, ActiveRegistered, TaskInv, EmptyMap, Holding, SessPC,
                       ConnPC, FindRec

(* What HashMap::retain (Restrict) leaves, used by the cleanup steps.    *)
LEMMA RestrictFacts ==
  ASSUME NEW f, NEW S, NEW K, NEW V,
         DOMAIN f \subseteq K, f \in [DOMAIN f -> V], S \subseteq DOMAIN f
  PROVE  /\ DOMAIN Restrict(f, S) = S
         /\ DOMAIN Restrict(f, S) \subseteq K
         /\ Restrict(f, S) \in [DOMAIN Restrict(f, S) -> V]
         /\ \A x \in S : Restrict(f, S)[x] = f[x]
BY DEF Restrict

-----------------------------------------------------------------------------
(* Type correctness.  TypeOK alone is not inductive: AddClientInsert and   *)
(* ReleasePort need the session's port to be a port, which PortInv gives. *)
LEMMA TypeStep == IInv /\ [Next]_vars => TypeOK'
<1> SUFFICES ASSUME TypeOK, PortInv, TaskInv, [Next]_vars PROVE TypeOK'
  BY DEF IInv
<1>1. ASSUME NEW c \in ClientIds, AllocatePort(c) PROVE TypeOK'
  <2>1. /\ sess' \in [ClientIds -> SessPC]
        /\ sport' \in [ClientIds -> Ports \cup {None}]
        /\ free' \subseteq Ports
    BY <1>1 DEF AllocatePort, TypeOK, SessPC
  <2>. QED
    BY <1>1, <2>1, Zenon DEF AllocatePort, TypeOK
<1>2. ASSUME NEW c \in ClientIds, AddClientInsert(c) PROVE TypeOK'
  <2>1. sport[c] \in Ports
    BY <1>2 DEF AddClientInsert, PortInv, PortHeld, Holding
  <2>2. clients' = Insert(clients, c, [port |-> sport[c], disabled |-> FALSE])
    BY <1>2 DEF AddClientInsert
  <2>3. [port |-> sport[c], disabled |-> FALSE] \in ClientRec
    BY <2>1 DEF ClientRec
  <2>6. /\ DOMAIN clients' \subseteq ClientIds
        /\ clients' \in [DOMAIN clients' -> ClientRec]
    BY <2>2, <2>3 DEF TypeOK, Insert
  <2>4. sess' \in [ClientIds -> SessPC]
    BY <1>2 DEF AddClientInsert, TypeOK, SessPC
  <2>. QED
    BY <1>2, <2>6, <2>4, Zenon DEF AddClientInsert, TypeOK
<1>3. ASSUME NEW c \in ClientIds, AddClientIndex(c) PROVE TypeOK'
  <2>1. sport[c] \in Ports
    BY <1>3 DEF AddClientIndex, PortInv, PortHeld, Holding
  <2>2. /\ DOMAIN port_map' \subseteq Ports
        /\ port_map' \in [DOMAIN port_map' -> ClientIds]
    BY <1>3, <2>1 DEF AddClientIndex, TypeOK, Insert
  <2>3. sess' \in [ClientIds -> SessPC]
    BY <1>3 DEF AddClientIndex, TypeOK, SessPC
  <2>. QED
    BY <1>3, <2>2, <2>3, Zenon DEF AddClientIndex, TypeOK
<1>4. ASSUME NEW c \in ClientIds, DisableClient(c) PROVE TypeOK'
  <2>1. /\ DOMAIN clients' \subseteq ClientIds
        /\ clients' \in [DOMAIN clients' -> ClientRec]
    BY <1>4 DEF DisableClient, TypeOK, ClientRec
  <2>2. sess' \in [ClientIds -> SessPC]
    BY <1>4 DEF DisableClient, TypeOK, SessPC
  <2>. QED
    BY <1>4, <2>1, <2>2, Zenon DEF DisableClient, TypeOK
<1>5. ASSUME NEW c \in ClientIds, ReleasePort(c) PROVE TypeOK'
  <2>1. sport[c] \in Ports
    BY <1>5 DEF ReleasePort, PortInv, PortHeld, Holding
  <2>2. free' \subseteq Ports /\ sess' \in [ClientIds -> SessPC]
    BY <1>5, <2>1 DEF ReleasePort, TypeOK, SessPC
  <2>. QED
    BY <1>5, <2>2, Zenon DEF ReleasePort, TypeOK
<1>6. ASSUME NEW c \in ClientIds, CleanupStreams(c) PROVE TypeOK'
  <2>1. /\ DOMAIN streams' \subseteq StreamIds
        /\ streams' \in [DOMAIN streams' -> StreamRec]
    BY <1>6, RestrictFacts DEF CleanupStreams, TypeOK, LiveStreams, Live
  <2>2. sess' \in [ClientIds -> SessPC]
    BY <1>6 DEF CleanupStreams, TypeOK, SessPC
  <2>. QED
    BY <1>6, <2>1, <2>2, Zenon DEF CleanupStreams, TypeOK
<1>7. ASSUME NEW c \in ClientIds, CleanupClients(c) PROVE TypeOK'
  <2>1. /\ DOMAIN clients' \subseteq ClientIds
        /\ clients' \in [DOMAIN clients' -> ClientRec]
    BY <1>7, RestrictFacts DEF CleanupClients, TypeOK, LiveClients, Live
  <2>2. sess' \in [ClientIds -> SessPC]
    BY <1>7 DEF CleanupClients, TypeOK, SessPC
  <2>. QED
    BY <1>7, <2>1, <2>2, Zenon DEF CleanupClients, TypeOK
<1>8. ASSUME NEW c \in ClientIds, FindCheck(c) PROVE TypeOK'
  <2>1. LET s == finding[c].sid
        IN  (IF s \in LiveStreams THEN s ELSE None) \in StreamIds \cup {None}
    BY DEF TypeOK, LiveStreams, Live
  <2>2. finding'[c] \in FindRec
    BY <1>8, <2>1 DEF FindCheck, TypeOK, FindRec
  <2>3. finding' = [finding EXCEPT ![c] = finding'[c]]
    BY <1>8 DEF FindCheck
  <2>4. finding' \in [ClientIds -> FindRec]
    BY <2>2, <2>3 DEF TypeOK
  <2>. QED
    BY <1>8, <2>4, Zenon DEF FindCheck, TypeOK
<1>9. ASSUME NEW c \in ClientIds, NEW a \in Addrs, FindRead(c, a) PROVE TypeOK'
  <2>1. finding' \in [ClientIds -> FindRec]
    BY <1>9 DEF FindRead, TypeOK, FindRec
  <2>. QED
    BY <1>9, <2>1, Zenon DEF FindRead, TypeOK
<1>10. ASSUME NEW s \in StreamIds, AddRemoteIndex(s) PROVE TypeOK'
  <2>1. conn[s].addr \in Addrs
    BY <1>10 DEF AddRemoteIndex, TaskInv
  <2>2. /\ DOMAIN addrs_map' \subseteq Addrs
        /\ addrs_map' \in [DOMAIN addrs_map' -> StreamIds]
    BY <1>10, <2>1 DEF AddRemoteIndex, TypeOK, Insert
  <2>3. conn' \in [StreamIds -> [pc : ConnPC, client : ClientIds \cup {None},
                                 addr : Addrs \cup {None}]]
    BY <1>10 DEF AddRemoteIndex, TypeOK, ConnPC
  <2>. QED
    BY <1>10, <2>2, <2>3, Zenon DEF AddRemoteIndex, TypeOK
<1>11. ASSUME NEW s \in StreamIds, DisableRemote(s) PROVE TypeOK'
  <2>1. /\ DOMAIN streams' \subseteq StreamIds
        /\ streams' \in [DOMAIN streams' -> StreamRec]
    <3>1. s \in DOMAIN streams
      BY <1>11 DEF DisableRemote
    <3>3. streams'[s] \in StreamRec
      BY <1>11, <3>1 DEF DisableRemote, TypeOK, StreamRec
    <3>4. streams' = [streams EXCEPT ![s] = streams'[s]]
      BY <1>11 DEF DisableRemote
    <3>. QED
      BY <3>3, <3>4 DEF TypeOK
  <2>. QED
    BY <1>11, <2>1, Zenon DEF DisableRemote, TypeOK
<1>12. ASSUME NEW s \in StreamIds, NEW c \in ClientIds, NEW a \in Addrs,
              AddRemoteInsert(s, c, a) PROVE TypeOK'
  <2>1. /\ DOMAIN streams' \subseteq StreamIds
        /\ streams' \in [DOMAIN streams' -> StreamRec]
    <3>1. [client |-> c, addr |-> a, disabled |-> FALSE] \in StreamRec
      BY DEF StreamRec
    <3>. QED
      BY <1>12, <3>1 DEF AddRemoteInsert, TypeOK, Insert
  <2>2. conn' \in [StreamIds -> [pc : ConnPC, client : ClientIds \cup {None},
                                 addr : Addrs \cup {None}]]
    BY <1>12 DEF AddRemoteInsert, TypeOK, ConnPC
  <2>. QED
    BY <1>12, <2>1, <2>2, Zenon DEF AddRemoteInsert, TypeOK
<1>13. CASE UNCHANGED vars
  BY <1>13, Zenon DEF vars, TypeOK
<1>14. QED
  BY <1>1, <1>2, <1>3, <1>4, <1>5, <1>6, <1>7, <1>8, <1>9, <1>10, <1>11,
     <1>12, <1>13 DEF Next

-----------------------------------------------------------------------------
(* PortInv and TaskInv are preserved: one lemma per action that writes     *)
(* session, client or allocator state.                                     *)
LEMMA AllocatePortPortInv ==
  ASSUME TypeOK, PortInv, NEW c \in ClientIds, AllocatePort(c) PROVE PortInv'
<1>1. c \notin DOMAIN clients /\ sess[c] = "new"
  BY DEF AllocatePort, PortInv, ClientsMatchSessions
<1>2. UNCHANGED clients
  BY DEF AllocatePort
<1>3. CASE \E p \in free : /\ free' = free \ {p}
                           /\ sport' = [sport EXCEPT ![c] = p]
                           /\ sess' = [sess EXCEPT ![c] = "alloc"]
  <2>1. PICK p \in free : /\ free' = free \ {p}
                          /\ sport' = [sport EXCEPT ![c] = p]
                          /\ sess' = [sess EXCEPT ![c] = "alloc"]
    BY <1>3
  <2>2. \A d \in ClientIds : sess[d] \in Holding => sport[d] # p
    BY DEF PortInv, PortHeld
  <2>3. PortHeld'
    BY <2>1, <1>1 DEF PortInv, PortHeld, TypeOK, Holding
  <2>4. PortsDistinct'
    BY <2>1, <2>2 DEF PortInv, PortsDistinct, TypeOK, Holding
  <2>5. ClientsMatchSessions'
    BY <2>1, <1>1, <1>2 DEF PortInv, ClientsMatchSessions, TypeOK
  <2>6. ActiveRegistered'
    BY <2>1, <1>2 DEF PortInv, ActiveRegistered, TypeOK
  <2>. QED
    BY <2>3, <2>4, <2>5, <2>6 DEF PortInv
<1>4. CASE free = {} /\ sess' = [sess EXCEPT ![c] = "done"] /\ UNCHANGED <<free, sport>>
  <2>1. PortHeld' /\ PortsDistinct'
    BY <1>4 DEF PortInv, PortHeld, PortsDistinct, TypeOK, Holding
  <2>2. ClientsMatchSessions' /\ ActiveRegistered'
    BY <1>4, <1>1, <1>2 DEF PortInv, ClientsMatchSessions, ActiveRegistered, TypeOK
  <2>. QED
    BY <2>1, <2>2 DEF PortInv
<1>. QED
  BY <1>3, <1>4 DEF AllocatePort

LEMMA AddClientInsertPortInv ==
  ASSUME TypeOK, PortInv, NEW c \in ClientIds, AddClientInsert(c) PROVE PortInv'
<1>1. sess[c] = "alloc" /\ c \notin DOMAIN clients
  BY DEF AddClientInsert, PortInv, ClientsMatchSessions
<1>2. /\ DOMAIN clients' = DOMAIN clients \cup {c}
      /\ clients'[c] = [port |-> sport[c], disabled |-> FALSE]
      /\ \A d \in DOMAIN clients : clients'[d] = clients[d]
  BY <1>1 DEF AddClientInsert, Insert
<1>3. sess' = [sess EXCEPT ![c] = "adding"] /\ UNCHANGED <<free, sport>>
  BY DEF AddClientInsert
<1>4. PortHeld' /\ PortsDistinct'
  BY <1>1, <1>3 DEF PortInv, PortHeld, PortsDistinct, TypeOK, Holding
<1>5. ClientsMatchSessions'
  <2>1. ASSUME NEW d \in DOMAIN clients' PROVE
          /\ sess'[d] \notin {"new", "alloc"}
          /\ clients'[d].port = sport'[d]
          /\ (clients'[d].disabled <=> sess'[d] \notin {"adding", "active"})
    <3>1. CASE d = c
      BY <3>1, <1>2, <1>3 DEF TypeOK
    <3>2. CASE d # c
      BY <3>2, <1>2, <1>3 DEF PortInv, ClientsMatchSessions, TypeOK
    <3>. QED
      BY <3>1, <3>2
  <2>. QED
    BY <2>1 DEF ClientsMatchSessions
<1>6. ActiveRegistered'
  BY <1>2, <1>3 DEF PortInv, ActiveRegistered, TypeOK
<1>. QED
  BY <1>4, <1>5, <1>6 DEF PortInv

LEMMA AddClientIndexPortInv ==
  ASSUME TypeOK, PortInv, NEW c \in ClientIds, AddClientIndex(c) PROVE PortInv'
<1>1. sess[c] = "adding" /\ sess' = [sess EXCEPT ![c] = "active"]
      /\ UNCHANGED <<clients, free, sport>>
  BY DEF AddClientIndex
<1>. QED
  BY <1>1 DEF PortInv, PortHeld, PortsDistinct, ClientsMatchSessions,
              ActiveRegistered, TypeOK, Holding

LEMMA DisableClientPortInv ==
  ASSUME TypeOK, PortInv, NEW c \in ClientIds, DisableClient(c) PROVE PortInv'
<1>1. sess[c] = "active" /\ c \in DOMAIN clients
  BY DEF DisableClient, PortInv, ActiveRegistered
<1>2. /\ clients' = [clients EXCEPT ![c].disabled = TRUE]
      /\ sess' = [sess EXCEPT ![c] = "disabled"]
      /\ UNCHANGED <<free, sport>>
  BY <1>1 DEF DisableClient
<1>3. PortHeld' /\ PortsDistinct'
  BY <1>1, <1>2 DEF PortInv, PortHeld, PortsDistinct, TypeOK, Holding
<1>4. ClientsMatchSessions'
  BY <1>1, <1>2 DEF PortInv, ClientsMatchSessions, TypeOK
<1>5. ActiveRegistered'
  BY <1>1, <1>2 DEF PortInv, ActiveRegistered, TypeOK
<1>. QED
  BY <1>3, <1>4, <1>5 DEF PortInv

LEMMA ReleasePortPortInv ==
  ASSUME TypeOK, PortInv, NEW c \in ClientIds, ReleasePort(c) PROVE PortInv'
<1>1. /\ sess[c] = "disabled"
      /\ free' = free \cup {sport[c]}
      /\ sess' = [sess EXCEPT ![c] = "released"]
      /\ UNCHANGED <<clients, sport>>
  BY DEF ReleasePort
<1>2. \A d \in ClientIds \ {c} : sess[d] \in Holding => sport[d] # sport[c]
  BY <1>1 DEF PortInv, PortsDistinct, Holding
<1>3. PortHeld'
  BY <1>1, <1>2 DEF PortInv, PortHeld, TypeOK, Holding
<1>4. PortsDistinct'
  BY <1>1 DEF PortInv, PortsDistinct, TypeOK, Holding
<1>5. ClientsMatchSessions' /\ ActiveRegistered'
  BY <1>1 DEF PortInv, ClientsMatchSessions, ActiveRegistered, TypeOK
<1>. QED
  BY <1>3, <1>4, <1>5 DEF PortInv

LEMMA CleanupStreamsPortInv ==
  ASSUME TypeOK, PortInv, NEW c \in ClientIds, CleanupStreams(c) PROVE PortInv'
<1>1. /\ sess[c] = "released"
      /\ sess' = [sess EXCEPT ![c] = "sweeping"]
      /\ UNCHANGED <<clients, free, sport>>
  BY DEF CleanupStreams
<1>. QED
  BY <1>1 DEF PortInv, PortHeld, PortsDistinct, ClientsMatchSessions,
              ActiveRegistered, TypeOK, Holding

LEMMA CleanupClientsPortInv ==
  ASSUME TypeOK, PortInv, NEW c \in ClientIds, CleanupClients(c) PROVE PortInv'
<1>1. /\ sess[c] = "sweeping"
      /\ sess' = [sess EXCEPT ![c] = "done"]
      /\ UNCHANGED <<free, sport>>
  BY DEF CleanupClients
<1>2. /\ DOMAIN clients' = {d \in DOMAIN clients : ~clients[d].disabled}
      /\ \A d \in DOMAIN clients' : clients'[d] = clients[d]
  BY RestrictFacts DEF CleanupClients, Restrict, LiveClients, Live
<1>3. c \notin DOMAIN clients'
  BY <1>1, <1>2 DEF PortInv, ClientsMatchSessions
<1>4. PortHeld' /\ PortsDistinct'
  BY <1>1 DEF PortInv, PortHeld, PortsDistinct, TypeOK, Holding
<1>5. ClientsMatchSessions'
  BY <1>1, <1>2, <1>3 DEF PortInv, ClientsMatchSessions, TypeOK
<1>6. ActiveRegistered'
  <2>1. ASSUME NEW d \in ClientIds, sess'[d] \in {"adding", "active"}
        PROVE d \in DOMAIN clients'
    <3>1. d # c /\ sess[d] \in {"adding", "active"}
      BY <2>1, <1>1 DEF TypeOK
    <3>2. d \in DOMAIN clients /\ ~clients[d].disabled
      BY <3>1 DEF PortInv, ActiveRegistered, ClientsMatchSessions
    <3>. QED
      BY <3>2, <1>2
  <2>. QED
    BY <2>1 DEF ActiveRegistered
<1>. QED
  BY <1>4, <1>5, <1>6 DEF PortInv

\* The accept tasks and the UDP dispatcher leave sessions, clients and the
\* allocator alone.
LEMMA StreamStepsPortInv ==
  ASSUME PortInv,
         \/ \E c \in ClientIds : FindCheck(c)
         \/ \E c \in ClientIds, a \in Addrs : FindRead(c, a)
         \/ \E s \in StreamIds : AddRemoteIndex(s) \/ DisableRemote(s)
         \/ \E s \in StreamIds, c \in ClientIds, a \in Addrs : AddRemoteInsert(s, c, a)
  PROVE PortInv'
<1>1. UNCHANGED <<clients, free, sess, sport>>
  BY DEF FindCheck, FindRead, AddRemoteIndex, DisableRemote, AddRemoteInsert
<1>. QED
  BY <1>1 DEF PortInv, PortHeld, PortsDistinct, ClientsMatchSessions,
              ActiveRegistered

LEMMA TaskStep == TypeOK /\ TaskInv /\ [Next]_vars => TaskInv'
<1> SUFFICES ASSUME TypeOK, TaskInv, [Next]_vars PROVE TaskInv'
  OBVIOUS
<1>1. CASE \E s \in StreamIds, c \in ClientIds, a \in Addrs : AddRemoteInsert(s, c, a)
  BY <1>1 DEF AddRemoteInsert, TaskInv, TypeOK
<1>2. CASE \E s \in StreamIds : AddRemoteIndex(s)
  BY <1>2 DEF AddRemoteIndex, TaskInv, TypeOK
<1>3. CASE \E c \in ClientIds, a \in Addrs : FindRead(c, a)
  BY <1>3 DEF FindRead, TaskInv, TypeOK
<1>4. CASE \E c \in ClientIds : FindCheck(c)
  BY <1>4 DEF FindCheck, TaskInv, TypeOK
<1>5. CASE \/ \E c \in ClientIds :
             \/ AllocatePort(c) \/ AddClientInsert(c) \/ AddClientIndex(c)
             \/ DisableClient(c) \/ ReleasePort(c)
             \/ CleanupStreams(c) \/ CleanupClients(c)
           \/ \E s \in StreamIds : DisableRemote(s)
           \/ UNCHANGED vars
  <2>1. UNCHANGED <<conn, finding>>
    BY <1>5 DEF AllocatePort, AddClientInsert, AddClientIndex, DisableClient,
                ReleasePort, CleanupStreams, CleanupClients, DisableRemote, vars
  <2>. QED
    BY <2>1 DEF TaskInv
<1>. QED
  BY <1>1, <1>2, <1>3, <1>4, <1>5 DEF Next

LEMMA NextIInv == IInv /\ [Next]_vars => IInv'
<1> SUFFICES ASSUME IInv, [Next]_vars PROVE IInv'
  OBVIOUS
<1>1. TypeOK'
  BY TypeStep
<1>2. TaskInv'
  BY TaskStep DEF IInv
<1>3. PortInv'
  <2> USE DEF IInv
  <2>1. CASE UNCHANGED vars
    BY <2>1 DEF vars, PortInv, PortHeld, PortsDistinct, ClientsMatchSessions,
                ActiveRegistered
  <2>2. CASE Next
    BY <2>2, AllocatePortPortInv, AddClientInsertPortInv, AddClientIndexPortInv,
       DisableClientPortInv, ReleasePortPortInv, CleanupStreamsPortInv,
       CleanupClientsPortInv, StreamStepsPortInv DEF Next
  <2>. QED
    BY <2>1, <2>2
<1>. QED
  BY <1>1, <1>2, <1>3 DEF IInv

-----------------------------------------------------------------------------
(* Type correctness of the Store model, for all ids, addresses and ports.  *)
THEOREM TypeCorrect == Spec => []TypeOK
<1>1. IInv => TypeOK
  BY DEF IInv
<1>. QED
  BY InitIInv, NextIInv, <1>1, PTL DEF Spec

(* Port exclusivity (the run store_ports checks it on two clients and two  *)
(* ports) holds for every port range and every number of clients: the      *)
(* port of a live client is never in the allocator's free set and never    *)
(* that of another live client.  It rests on the session disabling its     *)
(* client before release_port and on add_client registering the port the   *)
(* session was given.                                                      *)
THEOREM PortsExclusive == Spec => []PortExclusive
<1>1. IInv => PortExclusive
  BY DEF IInv, TypeOK, PortInv, PortHeld, PortsDistinct, ClientsMatchSessions,
         Holding, PortExclusive, LiveClients, Live
<1>. QED
  BY InitIInv, NextIInv, <1>1, PTL DEF Spec

-----------------------------------------------------------------------------
(* The port index.  An active session's port is indexed to it: the only    *)
(* writer of port_map is add_client's second half, for an adding session,  *)
(* whose port differs from every other holding session's (PortsDistinct).  *)
PortIndexed ==
  \A c \in ClientIds :
     sess[c] = "active" => sport[c] \in DOMAIN port_map /\ port_map[sport[c]] = c

LEMMA IndexStep == IInv /\ PortIndexed /\ [Next]_vars => PortIndexed'
<1> SUFFICES ASSUME IInv, PortIndexed, [Next]_vars PROVE PortIndexed'
  OBVIOUS
<1>1. ASSUME NEW c \in ClientIds, AddClientIndex(c) PROVE PortIndexed'
  <2> SUFFICES ASSUME NEW d \in ClientIds, sess'[d] = "active"
               PROVE  sport[d] \in DOMAIN port_map' /\ port_map'[sport[d]] = d
    BY <1>1 DEF AddClientIndex, PortIndexed
  <2>1. CASE d = c
    BY <1>1, <2>1 DEF AddClientIndex, Insert
  <2>2. CASE d # c
    <3>1. sess[d] = "active" /\ sess[c] = "adding"
      BY <1>1, <2>2 DEF AddClientIndex, IInv, TypeOK
    <3>2. sport[d] # sport[c]
      BY <3>1, <2>2 DEF IInv, PortInv, PortsDistinct, Holding
    <3>. QED
      BY <1>1, <3>1, <3>2 DEF AddClientIndex, Insert, PortIndexed
  <2>. QED
    BY <2>1, <2>2
<1>2. ASSUME NEW c \in ClientIds,
             \/ AllocatePort(c) \/ AddClientInsert(c) \/ DisableClient(c)
             \/ ReleasePort(c) \/ CleanupStreams(c) \/ CleanupClients(c)
      PROVE  PortIndexed'
  BY <1>2 DEF AllocatePort, AddClientInsert, DisableClient, ReleasePort,
              CleanupStreams, CleanupClients, PortIndexed, IInv, TypeOK
<1>3. ASSUME NEW c \in ClientIds,
             FindCheck(c) \/ \E a \in Addrs : FindRead(c, a)
      PROVE  UNCHANGED <<sess, sport, port_map>>
  BY <1>3 DEF FindCheck, FindRead
<1>4. ASSUME NEW s \in StreamIds,
             \/ AddRemoteIndex(s) \/ DisableRemote(s)
             \/ \E c \in ClientIds, a \in Addrs : AddRemoteInsert(s, c, a)
      PROVE  UNCHANGED <<sess, sport, port_map>>
  BY <1>4 DEF AddRemoteIndex, DisableRemote, AddRemoteInsert
<1>5. CASE UNCHANGED <<sess, sport, port_map>>
  BY <1>5 DEF PortIndexed
<1>. QED
  BY <1>1, <1>2, <1>3, <1>4, <1>5 DEF Next, vars

(* The port index agrees with the registry (the run store_ports checks it *)
(* on two clients and two ports) for every port range: once add_client has *)
(* returned, port_map sends the live client's port to that client, even    *)
(* when the port was reused and an earlier owner's entry is still there.   *)
THEOREM PortMapAlwaysAgrees == Spec => []PortMapAgrees
<1>1. Init => PortIndexed
  BY DEF Init, PortIndexed
<1>2. IInv /\ PortIndexed => PortMapAgrees
  <2> SUFFICES ASSUME IInv, PortIndexed, NEW c \in LiveClients, sess[c] = "active"
               PROVE  /\ clients[c].port \in DOMAIN port_map
                      /\ port_map[clients[c].port] = c
    BY DEF PortMapAgrees
  <2>1. c \in DOMAIN clients /\ c \in ClientIds
    BY DEF LiveClients, Live, IInv, TypeOK
  <2>2. clients[c].port = sport[c]
    BY <2>1 DEF IInv, PortInv, ClientsMatchSessions
  <2>. QED
    BY <2>1, <2>2 DEF PortIndexed
<1>3. IInv /\ PortIndexed /\ [Next]_vars => IInv' /\ PortIndexed'
  BY NextIInv, IndexStep
<1>. QED
  BY InitIInv, <1>1, <1>2, <1>3, PTL DEF Spec

=============================================================================
