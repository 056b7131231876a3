SPECIFICATION FairSpec
CONSTANTS
  Runs = {r1, r2}
  Tasks = {t1, t2}
  ApprovalIds = {a1, a2}
  Roles = {frontend, backend}
  Users = {user}
  None = None
CHECK_DEADLOCK FALSE
PROPERTY PlanEventuallyEnds
