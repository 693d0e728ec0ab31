---------------------------- MODULE PortRegistry ----------------------------
(***************************************************************************)
(* What the server's client registry promises about public ports (spec 3   *)
(* invariant 2, 4.2, 4.4), with every operation atomic: a client is        *)
(* registered together with a port no live client holds, and unregistered  *)
(* (disabled) in one step.  held[c] is the port of live client c, or None.  *)
(***************************************************************************)
CONSTANTS ClientIds, Ports, None

VARIABLE held

\* The ports some live client holds.
InUse == {held[c] : c \in {d \in ClientIds : held[d] # None}}

Init == held = [c \in ClientIds |-> None]

\* A handshake registers client c on a port no live client holds.
Register(c, p) ==
  /\ held[c] = None /\ p \notin InUse
  /\ held' = [held EXCEPT ![c] = p]

\* The session of c ends: its client is disabled and the port is its no more.
Unregister(c) ==
  /\ held[c] # None
  /\ held' = [held EXCEPT ![c] = None]

Next == \E c \in ClientIds : Unregister(c) \/ \E p \in Ports : Register(c, p)

Spec == Init /\ [][Next]_held
=============================================================================
