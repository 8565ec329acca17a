SPECIFICATION Spec
CONSTANTS
  TaskIds = {t1, t2, t3, t4}
  Projects = {p1, p2}
  Requests = {r1, r2}
  MaxDepth = 2
  None = None
SYMMETRY Symmetry
CHECK_DEADLOCK FALSE
CONSTRAINT FewWhenTorn
INVARIANTS TypeOK LoopsAreTorn ParentInProject
PROPERTIES MoveRespectsDepth ImplementsHierarchy
