\* One process, every combination of arguments.
CONSTANTS
  Handles = {main}
  Options = {}
  Levels = {info}
  None = None
  Arguments <- AllArguments
SPECIFICATION ExecFairSpec
INVARIANTS
  ValidatedNeverPanics
PROPERTIES
  SuccessMeansItListened
  ListensOrFails
CHECK_DEADLOCK FALSE
