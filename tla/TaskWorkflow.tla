---------------------------- MODULE TaskWorkflow ----------------------------
(***************************************************************************)
(* The workflow of one workspace as the timeline store keeps it in SQLite: *)
(* runs, the tasks a run was split into, and the approval of each task's   *)
(* output (apps/web/src/persistence.ts, with the claim service, the        *)
(* approval-guarded transition service and the run lifecycle it calls in   *)
(* packages/core/src).                                                     *)
(*                                                                         *)
(* Every operation of the store is one step here: the operation validates, *)
(* opens a transaction, reads, writes and commits.  An operation that is   *)
(* refused rolls back, so it leaves no step.  What happens when operations *)
(* overlap at their awaits is the subject of StoreConnection.              *)
(*                                                                         *)
(* A row that does not exist yet is NoRun, NoTask or NoApproval.  Of a     *)
(* timestamp column only NULL / not NULL is kept.                          *)
(***************************************************************************)
EXTENDS WorkflowStates

CONSTANTS
  Runs,         \* ids of runs
  Tasks,        \* ids of tasks
  ApprovalIds,  \* ids of approval rows
  Roles,        \* role keys of the specialists; an agent owner is one of them
  Users,        \* user actors
  None          \* SQL NULL

ASSUME ConstantsAssumption ==
  /\ None \notin Runs \cup Tasks \cup Roles \cup Users
  /\ Roles \cap Users = {}
  /\ Roles \cap Runs = {}
  /\ Users \cap Runs = {}

VARIABLES
  runs,       \* runs[r]: the row of run r
  tasks,      \* tasks[t]: the row of task t, with the role of its assignment
  approvals   \* approvals[a]: the row of approval a

vars == <<runs, tasks, approvals>>

-----------------------------------------------------------------------------
(* The owner of a lock is a pair of a type and an id.  The three types are *)
(* the three disjoint sets of ids: agent (a role key), user and run.       *)

Owners == Roles \cup Users \cup Runs

Decisions == {"approved", "rejected", "revision_requested"}

\* Mutant: a task under review may be claimed.
ReviewClaimableStates == {"todo", "in_progress", "waiting_approval"}

ClaimableStates == {"todo", "in_progress"}

Run == [status : RunStatuses \cup {"absent"},
        started : BOOLEAN, ended : BOOLEAN]

NoRun == [status |-> "absent", started |-> FALSE, ended |-> FALSE]

Task == [state : TaskStates \cup {"absent"}, run : Runs \cup {None},
         role : Roles \cup {None}, owner : Owners \cup {None},
         checkout : Runs \cup {None}, execution : Runs \cup {None},
         completed : BOOLEAN]

NoTask == [state |-> "absent", run |-> None, role |-> None, owner |-> None,
           checkout |-> None, execution |-> None, completed |-> FALSE]

Approval == [status : ApprovalStatuses \cup {"absent"},
             task : Tasks \cup {None}, run : Runs \cup {None},
             requestedBy : Owners \cup {None}, decidedBy : Users \cup {None},
             revised : BOOLEAN, resubmitted : BOOLEAN]

NoApproval == [status |-> "absent", task |-> None, run |-> None,
               requestedBy |-> None, decidedBy |-> None,
               revised |-> FALSE, resubmitted |-> FALSE]

-----------------------------------------------------------------------------
(* The pieces the operations are made of.                                  *)

\* The approval rows of a task, and those of a table that block a
\* transition out of waiting_approval.
ApprovalsOf(t) == {a \in ApprovalIds : approvals[a].task = t}

BlockingTask(table, t) ==
  {a \in ApprovalIds : table[a].task = t /\ table[a].status \in UnresolvedStatuses}

BlockingRun(table, r) ==
  {a \in ApprovalIds : table[a].run = r /\ table[a].status \in UnresolvedStatuses}

\* Owner o may act under run r at all: a run lock carries its own run id.
OwnerIdentityOk(r, o) == o \in Runs => o = r

\* An agent may claim only the task assigned to its role.
AgentMatchesAssignment(t, o) == o \in Roles => o = tasks[t].role

\* Mutant: claim and release look at the execution lock only.
ExecutionOnlyConflict(t, r, o) == tasks[t].execution \in {None, r}

\* No other run executes the task or has checked it out, no other owner
\* holds it: the conflict ladder shared by claim and release.
NoClaimConflict(t, r, o) ==
  /\ tasks[t].execution \in {None, r}
  /\ tasks[t].checkout \in {None, r}
  /\ tasks[t].owner \in {None, o}

\* Claiming run r also moves it to running; only a planned run can be
\* moved and a run that waits or has ended refuses the claim.
ClaimAllowed(t, r, o) ==
  /\ tasks[t].state \in ClaimableStates
  /\ OwnerIdentityOk(r, o)
  /\ AgentMatchesAssignment(t, o)
  /\ NoClaimConflict(t, r, o)
  /\ runs[r].status \in {"planned", "running"}

ClaimedTask(task, r, o) ==
  [task EXCEPT !.state = "in_progress", !.owner = o,
               !.checkout = r, !.execution = r]

\* Mutant: release gives up the whole checkout.
ForgottenTask(task) ==
  [task EXCEPT !.execution = None, !.checkout = None, !.owner = None]

ReleasedTask(task) == [task EXCEPT !.execution = None]

RunAfterClaim(run) ==
  IF run.status = "planned"
  THEN [run EXCEPT !.status = "running", !.started = TRUE, !.ended = FALSE]
  ELSE run

RunAfterSubmission(run) ==
  IF run.status = "waiting_approval" THEN run
  ELSE [run EXCEPT !.status = "waiting_approval", !.started = TRUE,
                   !.ended = FALSE]

\* Mutant: submission keeps the execution lock.
StillLockedTask(task) ==
  [task EXCEPT !.state = "waiting_approval", !.completed = FALSE]

SubmittedTask(task) ==
  [task EXCEPT !.state = "waiting_approval", !.execution = None,
               !.completed = FALSE]

RequestedApproval(t, o) ==
  [NoApproval EXCEPT !.status = "pending", !.task = t,
                     !.run = tasks[t].run, !.requestedBy = o]

\* Mutant: resubmission keeps the previous decision's columns.
UnclearedApproval(approval) ==
  [approval EXCEPT !.status = "resubmitted", !.resubmitted = TRUE]

ResubmittedApproval(approval) ==
  [approval EXCEPT !.status = "resubmitted", !.decidedBy = None,
                   !.resubmitted = TRUE]

DecidedApproval(approval, decision, u) ==
  [approval EXCEPT !.status = decision, !.decidedBy = u,
                   !.revised = IF decision = "revision_requested" THEN TRUE
                               ELSE @]

\* Mutant: a rejection writes the approval's status into the task.
MisnamedTaskState(decision) ==
  CASE decision = "approved" -> "done"
    [] decision = "revision_requested" -> "in_progress"
    [] OTHER -> "rejected"

TargetTaskState(decision) ==
  CASE decision = "approved" -> "done"
    [] decision = "revision_requested" -> "in_progress"
    [] OTHER -> "blocked"

DecidedTask(task, decision) ==
  [task EXCEPT !.state = TargetTaskState(decision),
               !.completed = (TargetTaskState(decision) = "done")]

\* Mutant: the count of tasks in the way leaves out the blocked ones.
BlockedIgnoringStatus(table, r) ==
  IF \E t \in Tasks : table[t].run = r /\ table[t].state = "failed"
  THEN "failed"
  ELSE IF \A t \in Tasks : table[t].run = r => table[t].state = "done"
       THEN "done"
       ELSE "running"

\* What the tasks of a run, in the given table, make of the run.
RunStatusAfterDecision(table, r) ==
  IF \E t \in Tasks : table[t].run = r /\ table[t].state \in {"blocked", "failed"}
  THEN "failed"
  ELSE IF \A t \in Tasks : table[t].run = r => table[t].state = "done"
       THEN "done"
       ELSE "running"

RunAfterDecision(run, target) ==
  [run EXCEPT !.status = target,
              !.started = IF target = "running" THEN TRUE ELSE @,
              !.ended = target \in {"done", "failed"}]

-----------------------------------------------------------------------------
(* The operations.                                                         *)

Init ==
  /\ runs = [r \in Runs |-> NoRun]
  /\ tasks = [t \in Tasks |-> NoTask]
  /\ approvals = [a \in ApprovalIds |-> NoApproval]

\* The planner splits a goal into one task for each specialist role it
\* selects, at least one; the run, its tasks and their assignments are
\* inserted together.
CreateProjectManagerPlan(r, chosen, roleOf) ==
  /\ runs[r].status = "absent"
  /\ chosen # {}
  /\ \A t \in chosen : tasks[t].state = "absent"
  /\ \A t, u \in chosen : roleOf[t] = roleOf[u] => t = u
  /\ runs' = [runs EXCEPT ![r] = [NoRun EXCEPT !.status = "planned"]]
  /\ tasks' = [t \in Tasks |->
                 IF t \in chosen
                 THEN [NoTask EXCEPT !.state = "todo", !.run = r,
                                     !.role = roleOf[t]]
                 ELSE tasks[t]]
  /\ UNCHANGED approvals

\* Checkout of a task by owner o under run r, any run of the workspace.
ClaimTaskExecution(t, r, o) ==
  /\ ClaimAllowed(t, r, o)
  /\ tasks' = [tasks EXCEPT ![t] = ClaimedTask(@, r, o)]
  /\ runs' = [runs EXCEPT ![r] = RunAfterClaim(@)]
  /\ UNCHANGED approvals

\* Release gives up the execution lock only: the checkout and the owner stay.
ReleaseTaskExecution(t, r, o) ==
  /\ tasks[t].state # "absent"
  /\ OwnerIdentityOk(r, o)
  /\ NoClaimConflict(t, r, o)
  /\ tasks' = [tasks EXCEPT ![t] = ReleasedTask(@)]
  /\ UNCHANGED <<runs, approvals>>

\* Mutant: every submission inserts an approval row of its own.
InsertSubmission(t, o, fresh) ==
  /\ \A a \in ApprovalsOf(t) : approvals[a].status = "revision_requested"
  /\ approvals[fresh].status = "absent"
  /\ approvals' = [approvals EXCEPT ![fresh] = RequestedApproval(t, o)]

\* The approval row a submission leaves: a new one (id fresh) for the first
\* submission, the only one the task has for a resubmission.
RecordSubmission(t, o, fresh) ==
  \/ /\ ApprovalsOf(t) = {}
     /\ approvals[fresh].status = "absent"
     /\ approvals' = [approvals EXCEPT ![fresh] = RequestedApproval(t, o)]
  \/ \E a \in ApprovalIds :
       /\ ApprovalsOf(t) = {a}
       /\ approvals[a].status = "revision_requested"
       /\ approvals' = [approvals EXCEPT ![a] = ResubmittedApproval(@)]

\* Output submitted by owner o under run r.  The task is claimed on the way
\* (run r starts running) and then waits; so does the run it belongs to,
\* which need not be r.
SubmitTaskOutput(t, r, o, fresh) ==
  /\ ClaimAllowed(t, r, o)
  /\ RecordSubmission(t, o, fresh)
  /\ tasks' = [tasks EXCEPT ![t] = SubmittedTask(ClaimedTask(@, r, o))]
  /\ LET claimed == [runs EXCEPT ![r] = RunAfterClaim(@)]
         home == tasks[t].run
     IN /\ CanTransitionRun(claimed[home].status, "waiting_approval")
        /\ runs' = [claimed EXCEPT ![home] = RunAfterSubmission(@)]

\* Mutants: the run's transition is not guarded by its approvals; the run
\* moves only when the decision ends it.
UnguardedMove(home, taskTable, approvalTable) ==
  IF runs[home].status = "waiting_approval"
  THEN runs' = [runs EXCEPT ![home] =
                  RunAfterDecision(@, RunStatusAfterDecision(taskTable, home))]
  ELSE UNCHANGED runs

EndingMoveOnly(home, taskTable, approvalTable) ==
  LET target == RunStatusAfterDecision(taskTable, home)
  IN IF /\ runs[home].status = "waiting_approval"
        /\ target # "running"
        /\ BlockingRun(approvalTable, home) = {}
     THEN runs' = [runs EXCEPT ![home] = RunAfterDecision(@, target)]
     ELSE UNCHANGED runs

\* A waiting run follows the decision unless another approval of it is still
\* unresolved: that refusal of the guarded transition is swallowed.
MoveRunAfterDecision(home, taskTable, approvalTable) ==
  LET target == RunStatusAfterDecision(taskTable, home)
  IN IF runs[home].status = "waiting_approval"
     THEN /\ CanTransitionRun("waiting_approval", target)
          /\ runs' = IF BlockingRun(approvalTable, home) = {}
                     THEN [runs EXCEPT ![home] = RunAfterDecision(@, target)]
                     ELSE runs
     ELSE UNCHANGED runs

\* User u decides the approval of a waiting task.
DecideTaskApproval(t, decision, u) ==
  /\ tasks[t].state = "waiting_approval"
  /\ \E a \in ApprovalIds :
       /\ ApprovalsOf(t) = {a}
       /\ approvals[a].status \in UnresolvedStatuses
       /\ approvals' = [approvals EXCEPT ![a] = DecidedApproval(@, decision, u)]
       /\ BlockingTask(approvals', t) = {}
       /\ tasks' = [tasks EXCEPT ![t] = DecidedTask(@, decision)]
       /\ MoveRunAfterDecision(approvals[a].run, tasks', approvals')

PlanStep ==
  \E r \in Runs, chosen \in SUBSET Tasks :
    \E roleOf \in [chosen -> Roles] : CreateProjectManagerPlan(r, chosen, roleOf)

ClaimStep ==
  \E t \in Tasks, r \in Runs, o \in Owners : ClaimTaskExecution(t, r, o)

ReleaseStep ==
  \E t \in Tasks, r \in Runs, o \in Owners : ReleaseTaskExecution(t, r, o)

SubmitStep ==
  \E t \in Tasks, r \in Runs, o \in Owners, fresh \in ApprovalIds :
    SubmitTaskOutput(t, r, o, fresh)

DecideStep ==
  \E t \in Tasks, decision \in Decisions, u \in Users :
    DecideTaskApproval(t, decision, u)

Next == PlanStep \/ ClaimStep \/ ReleaseStep \/ SubmitStep \/ DecideStep

Spec == Init /\ [][Next]_vars

\* Progress is made by people and agents, not by the store: somebody keeps
\* submitting the output of a task that can be submitted, and a reviewer does
\* not only ask for revisions.  Both are enabled only now and then (siblings
\* of one run take turns), hence strong fairness.
SubmitTask(t) ==
  \E r \in Runs, o \in Owners, fresh \in ApprovalIds : SubmitTaskOutput(t, r, o, fresh)

SettleTask(t) ==
  \E decision \in {"approved", "rejected"}, u \in Users :
    DecideTaskApproval(t, decision, u)

Fairness == \A t \in Tasks : SF_vars(SubmitTask(t)) /\ SF_vars(SettleTask(t))

FairSpec == Spec /\ Fairness

-----------------------------------------------------------------------------
(* Properties.                                                             *)

\* The rows hold values of their columns.
TypeOK ==
  /\ runs \in [Runs -> Run]
  /\ tasks \in [Tasks -> Task]
  /\ approvals \in [ApprovalIds -> Approval]

\* The task state that goes with an approval of the given status.
StateUnderReview(status) ==
  IF status \in UnresolvedStatuses THEN "waiting_approval"
  ELSE TargetTaskState(status)

\* A task and its approval never disagree, although submission and decision
\* write the two tables with separate statements: a task has at most one
\* approval, correlated with the task's run, whose status is the one the
\* task's state calls for, and a task past review has one.
ApprovalAgreesWithTask ==
  /\ \A a, b \in ApprovalIds :
       /\ approvals[a].status # "absent"
       /\ approvals[b].status # "absent"
       /\ approvals[a].task = approvals[b].task
       => a = b
  /\ \A a \in ApprovalIds : approvals[a].status # "absent" =>
       \E t \in Tasks :
         /\ approvals[a].task = t
         /\ approvals[a].run = tasks[t].run
         /\ tasks[t].state = StateUnderReview(approvals[a].status)
  /\ \A t \in Tasks : tasks[t].state \in {"waiting_approval", "done", "blocked"} =>
       \E a \in ApprovalIds : approvals[a].status # "absent" /\ approvals[a].task = t

\* A run waits for approval exactly while one of its approvals is
\* unresolved: it is neither left waiting by the last decision nor let go by
\* an earlier one, whichever run the output was submitted under.
RunWaitsForItsApprovals ==
  \A r \in Runs :
    runs[r].status = "waiting_approval" <=> BlockingRun(approvals, r) # {}

\* The status a run has reached is what its tasks have come to: done when all
\* are done, failed when one is blocked and none is under review any more.
RunOutcomeFollowsTasks ==
  \A r \in Runs : runs[r].status # "absent" =>
    LET own == {t \in Tasks : tasks[t].run = r}
    IN /\ runs[r].status = "done" <=> \A t \in own : tasks[t].state = "done"
       /\ runs[r].status = "failed" <=>
            /\ \E t \in own : tasks[t].state = "blocked"
            /\ \A t \in own : tasks[t].state # "waiting_approval"

\* An execution lock is held only by the run that checked the task out, and
\* only while the task is in progress; a checkout goes with an owner who was
\* entitled to it, and every task past todo has been checked out.
LockConsistent ==
  \A t \in Tasks :
    /\ tasks[t].execution # None =>
         /\ tasks[t].execution = tasks[t].checkout
         /\ tasks[t].state = "in_progress"
    /\ tasks[t].checkout = None <=> tasks[t].state \in {"absent", "todo"}
    /\ tasks[t].checkout = None <=> tasks[t].owner = None
    /\ tasks[t].owner \in Roles => tasks[t].owner = tasks[t].role
    /\ tasks[t].owner \in Runs => tasks[t].owner = tasks[t].checkout

\* The columns of an approval tell one story through any number of
\* revisions: it carries a decider exactly while it is resolved, resubmission
\* follows a revision request, and who requested it is the task's owner.
DecisionRecordConsistent ==
  \A a \in ApprovalIds : approvals[a].status # "absent" =>
    /\ approvals[a].decidedBy = None <=> approvals[a].status \in UnresolvedStatuses
    /\ approvals[a].status = "pending" => ~approvals[a].revised
    /\ approvals[a].status = "revision_requested" => approvals[a].revised
    /\ approvals[a].status = "resubmitted" => approvals[a].resubmitted
    /\ approvals[a].resubmitted => approvals[a].revised
    /\ \A t \in Tasks : approvals[a].task = t => approvals[a].requestedBy = tasks[t].owner

\* Timestamps follow the states through reopened work: ended_at is set
\* exactly for an ended run, started_at for one that has left planned, and
\* completed_at for a done task.
TimestampsAgree ==
  /\ \A r \in Runs :
       /\ runs[r].started <=> runs[r].status \notin {"absent", "planned"}
       /\ runs[r].ended <=> runs[r].status \in {"done", "failed"}
  /\ \A t \in Tasks : tasks[t].completed <=> tasks[t].state = "done"

\* The rows that are written again with every round of a review, an approval's
\* columns and the timestamps of tasks and runs, tell one story after any
\* sequence of claims, submissions, revisions and decisions.
RecordsTellOneStory == DecisionRecordConsistent /\ TimestampsAgree

\* Once a run and an owner hold a task it is never handed to another pair,
\* through release, review and revision (only one run and agent session may
\* own the execution of a task).
OwnershipIsPermanent ==
  [][\A t \in Tasks : tasks[t].checkout # None =>
       /\ tasks'[t].checkout = tasks[t].checkout
       /\ tasks'[t].owner = tasks[t].owner]_vars

\* What is settled stays settled: a done or blocked task, a done or failed
\* run and an approved or rejected approval are never written again, not even
\* by work that goes on under another run.
SettledStaysSettled ==
  [][/\ \A r \in Runs : runs[r].status \in {"done", "failed"} => runs'[r] = runs[r]
     /\ \A t \in Tasks : tasks[t].state \in {"done", "blocked"} => tasks'[t] = tasks[t]
     /\ \A a \in ApprovalIds : approvals[a].status \in {"approved", "rejected"} =>
          approvals'[a] = approvals[a]]_vars

\* The approval gate: a task leaves waiting_approval only in a step in which
\* a user resolves its approval, and a run only in a step after which none of
\* its approvals is unresolved.
GateNeverBypassed ==
  [][/\ \A t \in Tasks :
          tasks[t].state = "waiting_approval" /\ tasks'[t].state # "waiting_approval" =>
            \E a \in ApprovalIds :
              /\ approvals[a].task = t
              /\ approvals[a].status \in UnresolvedStatuses
              /\ approvals'[a].status \in Decisions
              /\ approvals'[a].decidedBy \in Users
     /\ \A r \in Runs :
          runs[r].status = "waiting_approval" /\ runs'[r].status # "waiting_approval" =>
            \A a \in ApprovalIds :
              approvals'[a].run = r => approvals'[a].status \notin UnresolvedStatuses]_vars

\* Seen from one task, the whole workflow is the lock of TaskLock: whatever
\* plans, claims, releases, submissions and decisions do to runs, siblings and
\* approvals, it amounts to one holder acquiring, pausing, handing in.
PhaseOf(state) ==
  CASE state \in {"absent", "todo", "in_progress"} -> "open"
    [] state = "waiting_approval" -> "review"
    [] OTHER -> "settled"

Holders == {h \in Runs \X Owners : OwnerIdentityOk(h[1], h[2])}

LockOf(t) == INSTANCE TaskLock
  WITH phase <- PhaseOf(tasks[t].state),
       holder <- IF tasks[t].checkout = None THEN None
                 ELSE <<tasks[t].checkout, tasks[t].owner>>,
       executing <- tasks[t].execution # None

EachTaskIsALock ==
  /\ \A t \in Tasks : LockOf(t)!Init
  /\ [][\A t \in Tasks : LockOf(t)!Next \/ UNCHANGED LockOf(t)!vars]_vars

\* Every task in progress is checked out by the run it was planned for.
CheckedOutByOwnRun ==
  \A t \in Tasks : tasks[t].checkout # None => tasks[t].checkout = tasks[t].run

\* As long as tasks are checked out under their own runs, no order of claims,
\* releases, submissions, revisions and decisions wedges a plan: every run
\* ends, although its tasks block each other while the run waits.
PlanEventuallyEnds ==
  []CheckedOutByOwnRun =>
    \A r \in Runs :
      runs[r].status # "absent" ~> runs[r].status \in {"done", "failed"}

\* A task handed back for revision can still be resubmitted by the pair that
\* holds it: the run it is checked out by has not ended.
RevisionCanBeResubmitted ==
  \A t \in Tasks, a \in ApprovalIds :
    approvals[a].task = t /\ approvals[a].status = "revision_requested" =>
      runs[tasks[t].checkout].status \notin {"done", "failed"}

=============================================================================
