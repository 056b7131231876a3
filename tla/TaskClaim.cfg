SPECIFICATION FairSpec
CONSTANTS
  Callers = {c1, c2}
  Runs = {r1, r2}
  Actors = {a}
  Stamps = {s1, s2}
  None = None
INVARIANTS
  TypeOK
  SuccessIsReal
  ContentionIsReal
PROPERTIES
  AcquiredOnce
  CallsReturn
  ImplementsTaskLock
