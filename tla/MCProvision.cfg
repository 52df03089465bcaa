SPECIFICATION Spec
CONSTANTS
  Tokens <- MCTokens
  Marks <- MCMarks
  Digits <- MCDigits
  Paths <- MCPaths
  SpecFiles <- MCSpecFiles
  Envs <- MCEnvs
  Malformed = Malformed
  Trees <- MCTrees
  Runners = {0, 7}
  Volumes <- MCVolumes
  MountPoints <- MCMounts
  Unset = Unset
  MaxKills = 2
INVARIANTS TypeOK Provisioned FailureHasCause
PROPERTIES SatisfiedRunIsIdle OthersUntouched
