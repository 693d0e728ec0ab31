CONSTANTS
  c1 = c1
  c2 = c2
  s1 = s1
  None = None
  ClientIds <- MCClientIds
  StreamIds <- MCStreamIds
  Owner <- MCOwner
  Stalled <- MCNoStall
  Cap = 1
  MaxMsgs = 2
SPECIFICATION Spec
INVARIANT TypeOK
PROPERTY StallIsolated
CHECK_DEADLOCK FALSE
