SPECIFICATION UsersSpec
CONSTANTS
  Callers = {c1, c2}
  Runs = {r1, r2}
  Tasks = {t1, t2}
  ApprovalIds = {a1}
  Roles = {frontend}
  Users = {user}
  None = None
CHECK_DEADLOCK FALSE
PROPERTY TransactionsEnd
