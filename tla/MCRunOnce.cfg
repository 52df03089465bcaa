SPECIFICATION Spec
CONSTANTS
  Programs <- MCPrograms
  MaxKills = 3
INVARIANTS TypeOK MainHasItsFiles
PROPERTIES WorkHappensOnce
CHECK_DEADLOCK FALSE
