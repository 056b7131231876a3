SPECIFICATION Spec
CONSTANTS
  Callers = {c1, c2}
  Runs = {r1}
  Tasks = {t1, t2}
  ApprovalIds = {a1, a2}
  Roles = {frontend, backend}
  Users = {user}
  None = None
SYMMETRY Symmetry
CHECK_DEADLOCK FALSE
INVARIANTS
  TypeOK
  CommittedTablesAgree
PROPERTIES
  CommittedStepsAreLegal
  AcknowledgedIsCommitted
