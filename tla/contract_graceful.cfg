\* A request in flight when stop is called is cut off.
CONSTANTS
  Callers = {c1}
  Servers = {s1}
  Requests = {r1}
  None = None
SPECIFICATION FairServingSpec
PROPERTIES
  StopIsGraceful
