SPECIFICATION Spec
CONSTANTS
  None = None
  plain = plain
  logs = logs
  fresh = fresh
  Services <- MCServices
  Booted = {plain}
  FirstFiles = {plain, logs}
  NewFiles = {logs, fresh}
  CanBuild = TRUE
  Logging = {logs}
  States = {"started", "stopped"}
  First = "stopped"
  Queue = 2
  EventBuffer = 1
  CanLose = TRUE
  MaxChanges = 1
  Keys = {"effect", "catlog", "follow", "nix-reload", "rebuild-all"}
  MaxKeys = 2
  MaxLines = 2
INVARIANTS TypeOK LinesOnce
PROPERTIES FollowKept
CHECK_DEADLOCK FALSE
