SPECIFICATION Spec
CONSTANTS
  Runs = {r1, r2}
  Tasks = {t1, t2, t3}
  ApprovalIds = {a1, a2, a3}
  Roles = {frontend, backend}
  Users = {user}
  None = None
SYMMETRY Symmetry
CHECK_DEADLOCK FALSE
INVARIANTS
  TypeOK
  ApprovalAgreesWithTask
  RunWaitsForItsApprovals
  RunOutcomeFollowsTasks
  LockConsistent
  RecordsTellOneStory
PROPERTIES
  OwnershipIsPermanent
  SettledStaysSettled
  GateNeverBypassed
  EachTaskIsALock
