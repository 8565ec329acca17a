SPECIFICATION Spec
CONSTANTS
  Tasks = {t1}
  Comments = {c1, c2}
  Users = {u1, u2}
  Requests = {r1, r2}
  Attempts = 2
  Keep = 1
  Modes = {TRUE, FALSE}
  Budget <- RequestsAndFault
  None = None
SYMMETRY Symmetry
CHECK_DEADLOCK FALSE
CONSTRAINT FaultOrEdit
INVARIANTS TypeOK RowsAreAccounted AssigneeIsTold ParentAuthorIsTold
