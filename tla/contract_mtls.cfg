\* A client key and certificate without a CA.
CONSTANTS
  Handles = {h1}
  Options <- TlsOptions
  Levels = {info}
  None = None
SPECIFICATION Spec
INVARIANTS
  MtlsNeedsCa
CHECK_DEADLOCK FALSE
