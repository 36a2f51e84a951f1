\* One caller, two servers one after the other, one request, fair scheduling;
\* an upstream that may never answer.
CONSTANTS
  Callers = {c1}
  Servers = {s1, s2}
  Requests = {r1}
  None = None
SPECIFICATION FairServingSpec
PROPERTIES
  ResolvedServerEnds
