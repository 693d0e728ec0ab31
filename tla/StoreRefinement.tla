-------------------------- MODULE StoreRefinement --------------------------
(***************************************************************************)
(* The Store's client and port handling implements the atomic registry of *)
(* PortRegistry.  The refinement mapping reads held[c] off the clients     *)
(* HashMap: the port of c while c is registered and not disabled.  Only    *)
(* AddClientInsert and DisableClient move the abstract state; every other  *)
(* step, the allocator's included, is an abstract stutter.                 *)
(***************************************************************************)
EXTENDS StoreProofs

HeldMap == [c \in ClientIds |-> IF c \in LiveClients THEN clients[c].port ELSE None]

Abs == INSTANCE PortRegistry WITH held <- HeldMap

(* Refinement: every behaviour of the Store, with add_client split in two  *)
(* map writes, the allocator handing ports to sessions before their client *)
(* is registered and release_port returning them after disable_client, is  *)
(* a behaviour of the atomic port registry.                                *)
AbsSpec == Abs!Spec

-----------------------------------------------------------------------------
\* Steps that leave the clients map alone leave the abstract state alone.
LEMMA HeldMapStutter ==
  UNCHANGED clients => UNCHANGED HeldMap
BY DEF HeldMap, LiveClients, Live

LEMMA InitRefines == Init => Abs!Init
BY DEF Init, Abs!Init, HeldMap, LiveClients, Live, EmptyMap

LEMMA AddClientRefines ==
  ASSUME IInv, NEW c \in ClientIds, AddClientInsert(c)
  PROVE  sport[c] \in Ports /\ Abs!Register(c, sport[c])
<1>1. sess[c] = "alloc" /\ c \notin DOMAIN clients /\ sport[c] \in Ports
  BY DEF AddClientInsert, IInv, PortInv, ClientsMatchSessions, PortHeld, Holding
<1>2. /\ DOMAIN clients' = DOMAIN clients \cup {c}
      /\ clients'[c] = [port |-> sport[c], disabled |-> FALSE]
      /\ \A d \in DOMAIN clients : clients'[d] = clients[d]
  BY <1>1 DEF AddClientInsert, Insert
<1>3. HeldMap[c] = None
  BY <1>1 DEF HeldMap, LiveClients, Live
<1>4. HeldMap' = [HeldMap EXCEPT ![c] = sport[c]]
  <2>1. HeldMap'[c] = sport[c]
    BY <1>2 DEF HeldMap, LiveClients, Live
  <2>2. \A d \in ClientIds \ {c} : HeldMap'[d] = HeldMap[d]
    BY <1>2 DEF HeldMap, LiveClients, Live
  <2>. QED
    BY <2>1, <2>2 DEF HeldMap
<1>5. sport[c] \notin Abs!InUse
  <2> SUFFICES ASSUME NEW d \in ClientIds, HeldMap[d] # None
               PROVE  HeldMap[d] # sport[c]
    BY DEF Abs!InUse
  <2>1. d \in DOMAIN clients /\ ~clients[d].disabled /\ HeldMap[d] = clients[d].port
    BY DEF HeldMap, LiveClients, Live
  <2>2. d # c /\ sess[d] \in Holding /\ clients[d].port = sport[d]
    BY <1>1, <2>1 DEF IInv, PortInv, ClientsMatchSessions, Holding
  <2>. QED
    BY <1>1, <2>1, <2>2 DEF IInv, PortInv, PortsDistinct, Holding
<1>. QED
  BY <1>1, <1>3, <1>4, <1>5 DEF Abs!Register

LEMMA DisableClientRefines ==
  ASSUME IInv, NEW c \in ClientIds, DisableClient(c)
  PROVE  Abs!Unregister(c)
<1>1. c \in DOMAIN clients /\ ~clients[c].disabled /\ clients[c].port \in Ports
  <2>1. sess[c] = "active" /\ c \in DOMAIN clients
    BY DEF DisableClient, IInv, PortInv, ActiveRegistered
  <2>2. ~clients[c].disabled /\ clients[c].port = sport[c]
    BY <2>1 DEF IInv, PortInv, ClientsMatchSessions
  <2>3. sport[c] \in Ports
    BY <2>1 DEF IInv, PortInv, PortHeld, Holding
  <2>. QED
    BY <2>1, <2>2, <2>3
<1>2. /\ DOMAIN clients' = DOMAIN clients
      /\ clients'[c].disabled
      /\ \A d \in DOMAIN clients \ {c} : clients'[d] = clients[d]
  BY <1>1 DEF DisableClient, IInv, TypeOK, ClientRec
<1>3. HeldMap[c] # None
  BY <1>1, StoreAssumption DEF HeldMap, LiveClients, Live
<1>4. HeldMap' = [HeldMap EXCEPT ![c] = None]
  <2>1. HeldMap'[c] = None
    BY <1>2 DEF HeldMap, LiveClients, Live
  <2>2. \A d \in ClientIds \ {c} : HeldMap'[d] = HeldMap[d]
    BY <1>2 DEF HeldMap, LiveClients, Live
  <2>. QED
    BY <2>1, <2>2 DEF HeldMap
<1>. QED
  BY <1>3, <1>4 DEF Abs!Unregister

LEMMA CleanupClientsRefines ==
  ASSUME IInv, NEW c \in ClientIds, CleanupClients(c)
  PROVE  UNCHANGED HeldMap
<1>1. /\ DOMAIN clients' = {d \in DOMAIN clients : ~clients[d].disabled}
      /\ \A d \in DOMAIN clients' : clients'[d] = clients[d]
  BY RestrictFacts DEF CleanupClients, Restrict, LiveClients, Live, IInv, TypeOK
<1>. QED
  BY <1>1 DEF HeldMap, LiveClients, Live

LEMMA NextRefines == IInv /\ [Next]_vars => [Abs!Next]_HeldMap
<1> SUFFICES ASSUME IInv, [Next]_vars PROVE [Abs!Next]_HeldMap
  OBVIOUS
<1>1. ASSUME NEW c \in ClientIds, AddClientInsert(c) PROVE [Abs!Next]_HeldMap
  BY <1>1, AddClientRefines DEF Abs!Next
<1>2. ASSUME NEW c \in ClientIds, DisableClient(c) PROVE [Abs!Next]_HeldMap
  BY <1>2, DisableClientRefines DEF Abs!Next
<1>3. ASSUME NEW c \in ClientIds, CleanupClients(c) PROVE [Abs!Next]_HeldMap
  BY <1>3, CleanupClientsRefines
<1>4. CASE UNCHANGED clients
  BY <1>4, HeldMapStutter
<1>5. ASSUME NEW c \in ClientIds,
             AllocatePort(c) \/ AddClientIndex(c) \/ ReleasePort(c)
             \/ CleanupStreams(c) \/ FindCheck(c) \/ \E a \in Addrs : FindRead(c, a)
      PROVE UNCHANGED clients
  BY <1>5 DEF AllocatePort, AddClientIndex, ReleasePort, CleanupStreams,
              FindCheck, FindRead
<1>6. ASSUME NEW s \in StreamIds,
             AddRemoteIndex(s) \/ DisableRemote(s)
             \/ \E c \in ClientIds, a \in Addrs : AddRemoteInsert(s, c, a)
      PROVE UNCHANGED clients
  BY <1>6 DEF AddRemoteIndex, DisableRemote, AddRemoteInsert
<1>7. CASE UNCHANGED vars
  BY <1>7, HeldMapStutter DEF vars
<1>. QED
  BY <1>1, <1>2, <1>3, <1>4, <1>5, <1>6, <1>7 DEF Next

(* The Store implements the atomic port registry for every number of      *)
(* clients, ports, streams and addresses (the run store_refines checks it  *)
(* on two of each): the split add_client registers its client on a port no *)
(* live client holds, and disable_client is the step that gives it up.     *)
THEOREM StoreRefinesRegistry == Spec => AbsSpec
<1>1. IInv /\ [][Next]_vars => [][Abs!Next]_HeldMap
  BY NextRefines, NextIInv, PTL
<1>. QED
  BY InitIInv, InitRefines, <1>1, PTL DEF Spec, AbsSpec, Abs!Spec

=============================================================================
