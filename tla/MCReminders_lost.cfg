SPECIFICATION FairSpec
CONSTANTS
  Tasks = {t1}
  Users = {u1}
  DueDates = {0}
  Hosts = {h1}
  Cron = {c1}
  Manual = {}
  Workers = {w1}
  Host <- OneProcess
  MaxLife = 0
  MaxTime = 0
  Window = 1
  Attempts = 2
  StalledLimit = 0
  Queues = {TRUE}
  Budget <- OneFault
  None = None
PROPERTIES EveryReminderReachesQueue
