\* A host that follows OneDriver, with the history variable of wait, every
\* thread scheduled fairly.
CONSTANTS
  Callers = {c1, c2, c3}
  Servers = {s1, s2}
  None = None
SPECIFICATION HSerialFairSpec
INVARIANTS
  OneServerAtATime
  ShutdownOnlyOnRequest
  ServingIsFlagged
PROPERTIES
  WaitBlocks
  StopEndsWait
  ImplementsLifecycle
  ImplementsFairLifecycle
