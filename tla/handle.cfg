\* Any host: three threads, up to two servers, weak fairness of every thread.
CONSTANTS
  Callers = {c1, c2, c3}
  Servers = {s1, s2}
  None = None
SPECIFICATION FairSpec
INVARIANTS
  TypeOK
  NoDetachedThread
  FreedMeansReclaimed
  Stoppable
  FlagHasAnOwner
PROPERTIES
  ResolvedServerEnds
  DestroyReturns
  StoppedJoinReturns
