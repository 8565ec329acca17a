SPECIFICATION FairSpec
CONSTANTS
  Notifications = {n1}
  Users = {u1, u2}
  Replicas = {p1, p2, p3}
  Worker = w
  Clients = {c1}
  Queues = {TRUE, FALSE}
  Adapters = {TRUE, FALSE}
  MaxFaults = 2
  None = None
INVARIANTS TypeOK PushesAreBounded DueIsOnItsWay
PROPERTIES DueIsPushed
