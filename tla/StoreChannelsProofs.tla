------------------------ MODULE StoreChannelsProofs ------------------------
(***************************************************************************)
(* Proofs about StoreChannels for every set of clients and streams, every  *)
(* channel capacity and every send bound.  TypeOK is not inductive: the     *)
(* channel send of SendEnqueue and the count it bumps are well typed only  *)
(* because every send in progress has a target and has not used up its     *)
(* bound, which StartSend establishes and no step before the send undoes.   *)
(***************************************************************************)
EXTENDS StoreChannels, TLAPS

\* A task inside send_to_remote / send_to_client.
Sending == {"want", "hold"}

(* A send in progress targets an entity and may still count one message.  *)
SendInv ==
  \A t \in Tasks : pc[t] \in Sending => tgt[t] \in Ents /\ cnt[t] < MaxMsgs

IInv == TypeOK /\ SendInv

LEMMA InitIInv == Init => IInv
<1> SUFFICES ASSUME Init PROVE IInv
  OBVIOUS
<1>1. TypeOK
  BY StoreChannelsAssumption DEF Init, TypeOK, Locks
<1>2. SendInv
  BY DEF Init, SendInv, Sending, Tasks, In, Rd, Ses
<1>. QED
  BY <1>1, <1>2 DEF IInv

-----------------------------------------------------------------------------
\* The task components: every task is a tuple whose second entry is the
\* entity it belongs to.
LEMMA TaskShape ==
  ASSUME NEW t \in Tasks
  PROVE  \/ t[1] = "in" /\ t[2] \in ClientIds /\ t = In(t[2])
         \/ t[1] = "rd" /\ t[2] \in StreamIds /\ t = Rd(t[2])
         \/ t[1] = "ses" /\ t[2] \in ClientIds /\ t = Ses(t[2])
BY DEF Tasks, In, Rd, Ses

LEMMA SendLockType == \A t \in Tasks : SendLock(t) \in Locks
BY DEF SendLock, Locks

(* The send steps, which touch the locks, the channels and the counts.    *)
LEMMA SendSteps ==
  ASSUME IInv, NEW t \in Tasks,
         StartSend(t) \/ Acquire(t) \/ SendMiss(t) \/ SendEnqueue(t)
  PROVE  IInv'
<1> USE SendLockType
<1>1. CASE StartSend(t)
  <2>1. tgt'[t] \in Ents
    <3>1. CASE t[1] = "in"
      BY <1>1, <3>1, TaskShape, StoreChannelsAssumption DEF StartSend, IInv, TypeOK, Ents
    <3>2. CASE t[1] # "in"
      BY <1>1, <3>2, TaskShape, StoreChannelsAssumption DEF StartSend, IInv, TypeOK, Ents
    <3>. QED
      BY <3>1, <3>2
  <2>2. TypeOK'
    BY <1>1, <2>1 DEF StartSend, IInv, TypeOK
  <2>3. SendInv'
    BY <1>1, <2>1 DEF StartSend, IInv, TypeOK, SendInv, Sending
  <2>. QED
    BY <2>2, <2>3 DEF IInv
<1>2. CASE Acquire(t)
  BY <1>2 DEF Acquire, IInv, TypeOK, SendInv, Sending
<1>3. CASE SendMiss(t)
  <2>1. cnt[t] + 1 \in 0 .. MaxMsgs
    BY <1>3, StoreChannelsAssumption DEF SendMiss, IInv, TypeOK, SendInv, Sending
  <2>. QED
    BY <1>3, <2>1 DEF SendMiss, IInv, TypeOK, SendInv, Sending
<1>4. CASE SendEnqueue(t)
  <2>1. tgt[t] \in Ents /\ cnt[t] + 1 \in 0 .. MaxMsgs
    BY <1>4, StoreChannelsAssumption DEF SendEnqueue, IInv, TypeOK, SendInv, Sending
  <2>2. chan' \in [Ents -> 0 .. Cap]
    BY <1>4, <2>1, StoreChannelsAssumption DEF SendEnqueue, IInv, TypeOK
  <2>. QED
    BY <1>4, <2>1, <2>2 DEF SendEnqueue, IInv, TypeOK, SendInv, Sending
<1>. QED
  BY <1>1, <1>2, <1>3, <1>4

(* The steps outside a send: draining, and the calls that mark entries    *)
(* and sweep them.  None of them moves a task into or inside a send.       *)
LEMMA OtherSteps ==
  ASSUME IInv,
         \/ \E e \in Ents : Drain(e)
         \/ \E s \in StreamIds : ReaderFails(s) \/ DisableRemote(s)
         \/ \E c \in ClientIds : \/ Terminate(c) \/ DisableClient(c)
                                 \/ CleanupStreams(c) \/ CleanupClients(c)
  PROVE  IInv'
<1>1. ASSUME NEW e \in Ents, Drain(e) PROVE IInv'
  <2>1. chan' \in [Ents -> 0 .. Cap]
    BY <1>1, StoreChannelsAssumption DEF Drain, IInv, TypeOK
  <2>. QED
    BY <1>1, <2>1 DEF Drain, IInv, TypeOK, SendInv
<1>2. ASSUME NEW s \in StreamIds, ReaderFails(s) \/ DisableRemote(s) PROVE IInv'
  <2>1. Rd(s) \in Tasks /\ s \in Ents
    BY DEF Tasks, Ents
  <2>. QED
    BY <1>2, <2>1 DEF ReaderFails, DisableRemote, IInv, TypeOK, SendInv, Sending
<1>3. ASSUME NEW c \in ClientIds, Terminate(c) PROVE IInv'
  <2>1. SessionTasks(c) \subseteq Tasks /\ Ses(c) \in Tasks
    BY DEF SessionTasks, Tasks
  <2>2. TypeOK'
    BY <1>3, <2>1 DEF Terminate, IInv, TypeOK
  <2>3. SendInv'
    BY <1>3 DEF Terminate, IInv, SendInv, Sending
  <2>. QED
    BY <2>2, <2>3 DEF IInv
<1>4. ASSUME NEW c \in ClientIds,
             \/ DisableClient(c) \/ CleanupStreams(c) \/ CleanupClients(c)
      PROVE  IInv'
  <2>1. Ses(c) \in Tasks /\ c \in Ents
    BY DEF Tasks, Ents
  <2>2. Swept(StreamIds) \in [Ents -> {"live", "disabled", "absent"}]
        /\ Swept(ClientIds) \in [Ents -> {"live", "disabled", "absent"}]
    BY DEF Swept, IInv, TypeOK
  <2>. QED
    BY <1>4, <2>1, <2>2 DEF DisableClient, CleanupStreams,
                            CleanupClients, IInv, TypeOK, SendInv, Sending
<1>. QED
  BY <1>1, <1>2, <1>3, <1>4

LEMMA NextIInv == IInv /\ [Next]_vars => IInv'
<1> SUFFICES ASSUME IInv, [Next]_vars PROVE IInv'
  OBVIOUS
<1>1. CASE UNCHANGED vars
  BY <1>1 DEF vars, IInv, TypeOK, SendInv
<1>. QED
  BY <1>1, SendSteps, OtherSteps DEF Next

(* Every state of the lock and channel model is well typed, for every     *)
(* capacity and send bound: a bounded channel never holds more than its   *)
(* capacity (send_to_remote / send_to_client complete only when there is  *)
(* room), each RwLock has at most one writer, and no task sends more than *)
(* its bound.                                                              *)
THEOREM TypeCorrect == Spec => []TypeOK
<1>1. IInv => TypeOK
  BY DEF IInv
<1>. QED
  BY InitIInv, NextIInv, <1>1, PTL DEF Spec

=============================================================================
