SPECIFICATION Spec
CONSTANTS
  Emails = {e1}
  Tabs = {b1, b2}
  Calls = {c1, c2}
  MaxTokens = 3
  None = None
SYMMETRY Symmetry
CHECK_DEADLOCK FALSE
INVARIANTS TypeOK OneLiveToken TabKeepsItsSession
PROPERTIES ClosedStaysClosed
