\* One handle, every option struct of MCStartup, any number of starts.
CONSTANTS
  Handles = {h1}
  Options <- AllOptions
  Levels = {info}
  None = None
SPECIFICATION Spec
INVARIANTS
  TypeOK
  NoCredentialsWithWildcard
  PlainOnlyWhenUnasked
  MtlsWithAuthority
  ListsAreSound
CHECK_DEADLOCK FALSE
