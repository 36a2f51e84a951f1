\* Two threads that never write one prefix at once; the process may end.
CONSTANTS
  Threads = {t1, t2}
  a1 = a1
  a2 = a2
  l1 = l1
  l2 = l2
  Authorities = {a1, a2}
  Leaves = {l1, l2}
  Issuer <- TwoIssuers
  Prefixes = {ca, web}
  CaPrefix = ca
  None = None
  Torn = Torn
SPECIFICATION RuledSpec
INVARIANTS
  TypeOK
  SettledPairMatches
