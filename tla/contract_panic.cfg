\* Valid CORS options that the CORS layer refuses by a panic.
CONSTANTS
  Handles = {h1}
  Options <- CorsOptions
  Levels = {info}
  None = None
SPECIFICATION Spec
INVARIANTS
  ValidatedNeverPanics
CHECK_DEADLOCK FALSE
