SPECIFICATION Spec
CONSTANTS
  Tasks = {t1}
  Users = {u1}
  DueDates = {0}
  Hosts = {h1, h2}
  Cron = {c1}
  Manual = {m1}
  Workers = {w1, w2}
  Host <- TwoProcesses
  MaxLife = 1
  MaxTime = 0
  Window = 1
  Attempts = 2
  StalledLimit = 1
  Queues = {TRUE, FALSE}
  Budget <- AllEvents
  None = None
CONSTRAINT TwoEvents
SYMMETRY Symmetry
INVARIANTS TypeOK SingleDispatch DuplicateBound FailedIsFinal PendingIsCarried
PROPERTIES ImplementsLifecycle
