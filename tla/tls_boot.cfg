\* A server started any number of times while gen-certs runs twice on
\* the same directory, each run stopped anywhere or complete.
CONSTANTS
  Handles = {h1}
  Options <- PemOptions
  Levels = {info}
  None = None
  MaxRun = 2
  NoFile = NoFile
  Torn = Torn
SPECIFICATION TlsSpec
INVARIANTS
  TlsTypeOK
  QuietBootIsOneGeneration
  StaleAuthorityNeedsARace
  ServedPairsMatch
  NothingOutrunsTheAuthority
  SuccessMeansOneGeneration
  MismatchExplained
PROPERTIES
  QuietBootFindsItsFiles
  ImplementsCertFiles
CHECK_DEADLOCK FALSE
