SPECIFICATION FairSpec
CONSTANTS
  Callers = {c1, c2}
  Tasks = {t}
  Runs = {r}
  Approvals = {a1}
  None = None
  Moves <- MovesAsked
INVARIANTS
  TypeOK
  VerdictsAreReal
PROPERTIES
  OnlyLateRequestsArePassed
  CallsReturn
