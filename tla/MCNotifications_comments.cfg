SPECIFICATION FairSpec
CONSTANTS
  Tasks = {t1}
  Comments = {c1, c2}
  Users = {u1, u2}
  Requests = {r1}
  Attempts = 2
  Keep = 1
  Modes = {TRUE}
  Budget <- TwoRequests
  None = None
CHECK_DEADLOCK FALSE
PROPERTIES EveryCommentIsNotified
