SPECIFICATION FairSpec
CONSTANTS
  Tasks = {t1}
  Users = {u1}
  DueDates = {1}
  Hosts = {h1}
  Cron = {c1, c2}
  Manual = {}
  Workers = {w1}
  Host <- OneProcess
  MaxLife = 0
  MaxTime = 1
  Window = 1
  Attempts = 2
  StalledLimit = 0
  Queues = {TRUE, FALSE}
  Budget <- AllFaults
  None = None
PROPERTIES NoDueSoonAfterOverdue PendingIsResolved OverdueIsReminded
