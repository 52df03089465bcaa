SPECIFICATION FairSpec
CONSTANTS
  None = None
  plain = plain
  logs = logs
  fresh = fresh
  Services = {plain, logs}
  Booted = {}
  FirstFiles = {logs}
  NewFiles = {plain, logs}
  CanBuild = TRUE
  Logging = {logs}
  States = {"started", "stopped"}
  First = "stopped"
  Queue = 1
  EventBuffer = 1
  CanLose = TRUE
  MaxChanges = 2
  Keys = {"follow", "rebuild-all"}
  MaxKeys = 2
  MaxLines = 1

PROPERTIES RowsCatchUp FollowShows LossShows CommandsEnd
CHECK_DEADLOCK FALSE
