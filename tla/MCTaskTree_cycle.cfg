SPECIFICATION Spec
CONSTANTS
  TaskIds = {t1, t2}
  Projects = {p1}
  Requests = {r1, r2}
  MaxDepth = 5
  None = None
SYMMETRY Symmetry
CHECK_DEADLOCK FALSE
INVARIANTS Acyclic
