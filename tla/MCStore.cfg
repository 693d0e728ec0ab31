CONSTANTS
  ClientIds = {c1, c2, c3}
  StreamIds = {s1}
  Addrs = {a1}
  Ports = {p1, p2}
  None = None
SPECIFICATION Spec
SYMMETRY MCSymmetry
CHECK_DEADLOCK FALSE
INVARIANT TypeOK
INVARIANT PortExclusive
INVARIANT PortMapAgrees
