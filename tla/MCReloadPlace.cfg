SPECIFICATION Spec
CONSTANTS
  None = None
  LocalBuild = LocalBuild
  base = base
  web = web
  job = job
  first = first
  second = second
  TUIs = {first}
  run = run
  sockets = sockets
  Dirs <- MCDirs
  Wrapper <- MCWrapperSocket
  Launches <- MCLaunchesSocket
  Names <- MCTwoNames
  Started = 0
  MaxBuild = 1
  Provides <- MCProvidesSame
  Local = {}
  Booted = {base}
  CanRefuse = FALSE
INVARIANTS ReloadAdopts
