SPECIFICATION Spec
CONSTANTS
  None = None
  LocalBuild = LocalBuild
  base = base
  web = web
  job = job
  first = first
  second = second
  TUIs = {first}
  run = run
  sockets = sockets
  Dirs <- MCDirs
  Wrapper <- MCWrapper
  Launches <- MCLaunches
  Names <- MCTwoNames
  Started = 0
  MaxBuild = 1
  Provides <- MCProvidesTwo
  Local = {}
  Booted = {base}
  CanRefuse = FALSE
INVARIANTS RunningSetIsNew
