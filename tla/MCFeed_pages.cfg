SPECIFICATION Spec
CONSTANTS
  Ids = {1, 2, 3}
  Feeds = {"projects", "comments", "notifications", "activity"}
  Limits = {1, 2}
  PerMilli = 2
  MaxTime = 3
  None = None
CHECK_DEADLOCK FALSE
INVARIANTS TypeOK PagesDescend SkipsOnlyWithinMillisecond
