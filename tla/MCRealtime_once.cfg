SPECIFICATION Spec
CONSTANTS
  Notifications = {n1}
  Users = {u1}
  Replicas = {p1, p2}
  Worker = w
  Clients = {c1}
  Queues = {TRUE}
  Adapters = {TRUE}
  MaxFaults = 0
  None = None
INVARIANTS PushedOnce
