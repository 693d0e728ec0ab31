-------------------------- MODULE MCStoreChannels --------------------------
(* Two sessions; c1 has one public stream.  Channels of capacity one.      *)
EXTENDS StoreChannels

CONSTANTS c1, c2, s1

MCClientIds == {c1, c2}
MCStreamIds == {s1}
MCOwner == [s \in MCStreamIds |-> c1]
\* No peer stops reading for good; in the other instances s1's or c1's does.
MCNoStall == {}
MCStallS1 == {s1}
\* c1's websocket peer stops reading: its stream's reader parks on the
\* clients lock until c1's session is ended by its liveness check.
MCStallC1 == {c1}
=============================================================================
