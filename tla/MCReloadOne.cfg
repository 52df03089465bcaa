SPECIFICATION Spec
CONSTANTS
  None = None
  LocalBuild = LocalBuild
  base = base
  web = web
  job = job
  first = first
  second = second
  TUIs = {first}
  run = run
  sockets = sockets
  Dirs = {run}
  Wrapper <- MCWrapper
  Launches <- MCLaunches
  Names <- MCNames
  Started = 1
  MaxBuild = 2
  Provides <- MCProvides
  Local = {}
  Booted = {base, job}
  CanRefuse = TRUE
INVARIANTS TypeOK LinkIsOwn AdoptedEverywhere ReloadAdopts RunsAdopted
PROPERTIES LinkAdvances DescriptionsStay
