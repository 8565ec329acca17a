SPECIFICATION FairSpec
CONSTANTS
  Users = {u1, u2}
  Invitations = {i1}
  Processes = {p1, p2}
  Requests = {r1, r2}
  MaxRequests = 2
  None = None
CHECK_DEADLOCK FALSE
INVARIANTS TypeOK OwnerIsAdmin StaleOnlyByRace
PROPERTIES SettledIsFinal RemovedIsForgotten
