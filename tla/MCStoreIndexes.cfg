CONSTANTS
  ClientIds = {c1, c2}
  StreamIds = {s1, s2}
  Addrs = {a1, a2}
  Ports = {p1, p2}
  None = None
SPECIFICATION Spec
SYMMETRY MCSymmetry
CHECK_DEADLOCK FALSE
INVARIANT IndexesSwept
