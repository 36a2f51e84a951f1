\* Any host: two waits that overlap, and a start.
CONSTANTS
  Callers = {c1, c2}
  Servers = {s1, s2}
  None = None
SPECIFICATION Spec
SYMMETRY Symmetry
INVARIANTS
  OneServerAtWork
