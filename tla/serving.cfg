\* A host that follows OneDriver: two callers, one server, two requests.
CONSTANTS
  Callers = {c1, c2}
  Servers = {s1}
  Requests = {r1, r2}
  None = None
SPECIFICATION SerialServingSpec
SYMMETRY Symmetry
INVARIANTS
  ServingTypeOK
  AnswersPassedOuterLayers
  UpstreamSeesOnlyCalls
  ReturnedMeansQuiet
PROPERTIES
  ImplementsExchanges
