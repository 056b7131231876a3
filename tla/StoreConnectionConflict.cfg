SPECIFICATION Spec
CONSTANTS
  Callers = {c1, c2}
  Runs = {r1}
  Tasks = {t1}
  ApprovalIds = {a1}
  Roles = {frontend}
  Users = {user}
  None = None
CHECK_DEADLOCK FALSE
PROPERTIES
  CompetingClaimsGetConflictCodes
