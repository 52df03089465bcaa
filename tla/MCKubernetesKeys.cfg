SPECIFICATION Spec
CONSTANTS
  Programs <- KubernetesOnly
  MaxKills = 3
INVARIANTS KeysExist
CHECK_DEADLOCK FALSE
