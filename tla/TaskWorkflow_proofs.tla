------------------------- MODULE TaskWorkflow_proofs -------------------------
(* Theorems about TaskWorkflow for every set of runs, tasks, approvals,    *)
(* roles and users.                                                        *)
EXTENDS TaskWorkflow, TLAPS

-----------------------------------------------------------------------------
(* Rows stay rows: every operator that builds a row returns one.           *)

LEMMA RunRows ==
  ASSUME NEW run \in Run, NEW target \in RunStatuses
  PROVE  /\ RunAfterClaim(run) \in Run
         /\ RunAfterSubmission(run) \in Run
         /\ RunAfterDecision(run, target) \in Run
  <1>1. RunAfterClaim(run) \in Run /\ RunAfterSubmission(run) \in Run
    BY DEF Run, RunStatuses, RunAfterClaim, RunAfterSubmission
  <1>2. (target \in {"done", "failed"}) \in BOOLEAN
    OBVIOUS
  <1>3. (IF target = "running" THEN TRUE ELSE run.started) \in BOOLEAN
    BY DEF Run
  <1>4. RunAfterDecision(run, target) \in Run
    BY <1>2, <1>3, Zenon DEF Run, RunAfterDecision
  <1> QED
    BY <1>1, <1>4

LEMMA TaskRows ==
  ASSUME NEW task \in Task, NEW r \in Runs, NEW o \in Owners,
         NEW decision \in Decisions
  PROVE  /\ ClaimedTask(task, r, o) \in Task
         /\ ReleasedTask(task) \in Task
         /\ SubmittedTask(task) \in Task
         /\ TargetTaskState(decision) \in TaskStates
         /\ DecidedTask(task, decision) \in Task
  BY DEF Task, TaskStates, ClaimedTask, ReleasedTask, SubmittedTask,
         Decisions, TargetTaskState, DecidedTask

LEMMA ApprovalRows ==
  ASSUME NEW approval \in Approval, NEW decision \in Decisions, NEW u \in Users
  PROVE  /\ ResubmittedApproval(approval) \in Approval
         /\ DecidedApproval(approval, decision, u) \in Approval
  BY DEF Approval, ApprovalStatuses, ResubmittedApproval, DecidedApproval, Decisions

LEMMA NewRows ==
  ASSUME TypeOK, NEW t \in Tasks, NEW r \in Runs, NEW o \in Owners, NEW k \in Roles
  PROVE  /\ NoRun \in Run /\ [NoRun EXCEPT !.status = "planned"] \in Run
         /\ NoTask \in Task
         /\ [NoTask EXCEPT !.state = "todo", !.run = r, !.role = k] \in Task
         /\ NoApproval \in Approval
         /\ RequestedApproval(t, o) \in Approval
  BY DEF TypeOK, Run, NoRun, Task, NoTask, Approval, NoApproval, RunStatuses,
         TaskStates, ApprovalStatuses, RequestedApproval

-----------------------------------------------------------------------------
(* Type correctness.                                                       *)

LEMMA InitTypeOK == Init => TypeOK
  BY DEF Init, TypeOK, Run, NoRun, Task, NoTask, Approval, NoApproval,
         RunStatuses, TaskStates, ApprovalStatuses

LEMMA NextTypeOK == TypeOK /\ [Next]_vars => TypeOK'
  <1> SUFFICES ASSUME TypeOK, [Next]_vars PROVE TypeOK'
    OBVIOUS
  <1> USE DEF TypeOK
  <1>1. ASSUME NEW r \in Runs, NEW chosen \in SUBSET Tasks,
               NEW roleOf \in [chosen -> Roles],
               CreateProjectManagerPlan(r, chosen, roleOf)
        PROVE  TypeOK'
    <2>1. \A t \in chosen : [NoTask EXCEPT !.state = "todo", !.run = r,
                                           !.role = roleOf[t]] \in Task
      BY DEF NoTask, Task, TaskStates
    <2>2. [NoRun EXCEPT !.status = "planned"] \in Run
      BY DEF NoRun, Run, RunStatuses
    <2> QED
      BY <1>1, <2>1, <2>2 DEF CreateProjectManagerPlan
  <1>2. ASSUME NEW t \in Tasks, NEW r \in Runs, NEW o \in Owners,
               ClaimTaskExecution(t, r, o)
        PROVE  TypeOK'
    <2>1. ClaimedTask(tasks[t], r, o) \in Task /\ RunAfterClaim(runs[r]) \in Run
      BY TaskRows, RunRows DEF Decisions, RunStatuses
    <2> QED
      BY <1>2, <2>1 DEF ClaimTaskExecution
  <1>3. ASSUME NEW t \in Tasks, NEW r \in Runs, NEW o \in Owners,
               ReleaseTaskExecution(t, r, o)
        PROVE  TypeOK'
    <2>1. ReleasedTask(tasks[t]) \in Task
      BY TaskRows DEF Decisions
    <2> QED
      BY <1>3, <2>1 DEF ReleaseTaskExecution
  <1>4. ASSUME NEW t \in Tasks, NEW r \in Runs, NEW o \in Owners,
               NEW fresh \in ApprovalIds, SubmitTaskOutput(t, r, o, fresh)
        PROVE  TypeOK'
    <2>1. runs' \in [Runs -> Run]
      <3> DEFINE claimed == [runs EXCEPT ![r] = RunAfterClaim(@)]
                 home == tasks[t].run
      <3>1. claimed \in [Runs -> Run]
        BY RunRows DEF RunStatuses
      <3>2. \A q \in Runs : RunAfterSubmission(claimed[q]) \in Run
        BY <3>1, RunRows DEF RunStatuses
      <3>3. runs' = [claimed EXCEPT ![home] = RunAfterSubmission(@)]
        BY <1>4 DEF SubmitTaskOutput
      <3> HIDE DEF claimed
      <3> QED
        BY <3>1, <3>2, <3>3
    <2>2. SubmittedTask(ClaimedTask(tasks[t], r, o)) \in Task
      BY TaskRows DEF Decisions
    <2>3. tasks' \in [Tasks -> Task]
      BY <1>4, <2>2 DEF SubmitTaskOutput
    <2>4. approvals' \in [ApprovalIds -> Approval]
      <3>1. RequestedApproval(t, o) \in Approval
        BY DEF RequestedApproval, NoApproval, Approval, ApprovalStatuses, Task
      <3>2. \A a \in ApprovalIds : ResubmittedApproval(approvals[a]) \in Approval
        BY DEF ResubmittedApproval, Approval, ApprovalStatuses
      <3> QED
        BY <1>4, <3>1, <3>2 DEF SubmitTaskOutput, RecordSubmission
    <2> QED
      BY <2>1, <2>3, <2>4
  <1>5. ASSUME NEW t \in Tasks, NEW decision \in Decisions, NEW u \in Users,
               DecideTaskApproval(t, decision, u)
        PROVE  TypeOK'
    <2>1. PICK a \in ApprovalIds :
            /\ approvals' = [approvals EXCEPT ![a] = DecidedApproval(@, decision, u)]
            /\ tasks' = [tasks EXCEPT ![t] = DecidedTask(@, decision)]
            /\ MoveRunAfterDecision(approvals[a].run, tasks', approvals')
      BY <1>5 DEF DecideTaskApproval
    <2>2. approvals' \in [ApprovalIds -> Approval]
      BY <2>1, ApprovalRows
    <2>3. DecidedTask(tasks[t], decision) \in Task
      BY DEF DecidedTask, Task, TargetTaskState, TaskStates
    <2>4. tasks' \in [Tasks -> Task]
      BY <2>1, <2>3
    <2>5. \A q : RunStatusAfterDecision(tasks', q) \in RunStatuses
      BY DEF RunStatusAfterDecision, RunStatuses
    <2>6. \A q \in Runs : RunAfterDecision(runs[q],
                             RunStatusAfterDecision(tasks', approvals[a].run)) \in Run
      <3> TAKE q \in Runs
      <3> QED
        BY <2>5, runs[q] \in Run, RunRows
    <2>7. runs' \in [Runs -> Run]
      <3> DEFINE home == approvals[a].run
                 next == RunAfterDecision(runs[home], RunStatusAfterDecision(tasks', home))
      <3>1. runs' = runs \/ runs' = [runs EXCEPT ![home] = next]
        BY <2>1, Zenon DEF MoveRunAfterDecision
      <3>2. home \in Runs => next \in Run
        BY <2>6
      <3> HIDE DEF next
      <3> QED
        BY <3>1, <3>2
    <2> QED
      BY <2>2, <2>4, <2>7
  <1>6. CASE UNCHANGED vars
    BY <1>6 DEF vars
  <1> QED
    BY <1>1, <1>2, <1>3, <1>4, <1>5, <1>6
    DEF Next, PlanStep, ClaimStep, ReleaseStep, SubmitStep, DecideStep

\* Every column of every row keeps a value of its type, however many runs,
\* tasks and owners there are.
THEOREM TypeCorrect == Spec => []TypeOK
  BY InitTypeOK, NextTypeOK, PTL DEF Spec

-----------------------------------------------------------------------------
(* The inductive invariant.  The three properties of the workflow do not   *)
(* carry themselves over a step: a decision could end a run that has no    *)
(* task, and a submission could hand the approval to a run that does not   *)
(* exist.  What is missing is that plans are complete: a task is inserted  *)
(* with its run, a run with a task, and nothing correlates an unused row.  *)

PlansComplete ==
  /\ \A t \in Tasks :
       /\ tasks[t].state # "failed"
       /\ tasks[t].state = "absent" <=> tasks[t].run = None
       /\ tasks[t].state # "absent" => runs[tasks[t].run].status # "absent"
  /\ \A r \in Runs : runs[r].status # "absent" => \E t \in Tasks : tasks[t].run = r
  /\ \A a \in ApprovalIds : approvals[a].status = "absent" =>
       approvals[a].task = None /\ approvals[a].run = None

IInv ==
  /\ TypeOK
  /\ PlansComplete
  /\ ApprovalAgreesWithTask
  /\ RunWaitsForItsApprovals
  /\ RunOutcomeFollowsTasks

LEMMA InitIInv == Init => IInv
  <1> SUFFICES ASSUME Init PROVE IInv
    OBVIOUS
  <1>1. TypeOK
    BY InitTypeOK
  <1>2. PlansComplete /\ ApprovalAgreesWithTask
    BY DEF Init, PlansComplete, ApprovalAgreesWithTask, NoRun, NoTask, NoApproval
  <1>3. RunWaitsForItsApprovals /\ RunOutcomeFollowsTasks
    BY DEF Init, RunWaitsForItsApprovals, RunOutcomeFollowsTasks, BlockingRun,
           UnresolvedStatuses, NoRun, NoTask, NoApproval
  <1> QED
    BY <1>1, <1>2, <1>3 DEF IInv

\* What a task's approval says about it, in a form that speaks of one task:
\* the approval of t, if there is one, and the run it is correlated with.
LEMMA ApprovalOfTask ==
  ASSUME IInv, NEW a \in ApprovalIds, NEW t \in Tasks, approvals[a].task = t
  PROVE  /\ approvals[a].status # "absent"
         /\ approvals[a].run = tasks[t].run
         /\ tasks[t].state = StateUnderReview(approvals[a].status)
         /\ \A b \in ApprovalIds : approvals[b].task = t => b = a
  BY ConstantsAssumption DEF IInv, PlansComplete, ApprovalAgreesWithTask

\* A task that exists belongs to a run that exists.
LEMMA HomeOfTask ==
  ASSUME IInv, NEW t \in Tasks, tasks[t].state # "absent"
  PROVE  tasks[t].run \in Runs /\ runs[tasks[t].run].status # "absent"
  BY DEF IInv, PlansComplete, TypeOK, Task

-----------------------------------------------------------------------------
(* Planning.                                                               *)

LEMMA PlanIInv ==
  ASSUME IInv, NEW r \in Runs, NEW chosen \in SUBSET Tasks,
         NEW roleOf \in [chosen -> Roles],
         CreateProjectManagerPlan(r, chosen, roleOf), TypeOK'
  PROVE  IInv'
  <1>1. /\ runs[r].status = "absent"
        /\ runs'[r].status = "planned"
        /\ \A q \in Runs \ {r} : runs'[q] = runs[q]
    BY DEF CreateProjectManagerPlan, IInv, TypeOK, NoRun
  <1>2. /\ chosen # {}
        /\ \A t \in chosen : /\ tasks[t].state = "absent"
                             /\ tasks'[t].state = "todo"
                             /\ tasks'[t].run = r
        /\ \A t \in Tasks \ chosen : tasks'[t] = tasks[t]
    BY DEF CreateProjectManagerPlan, IInv, TypeOK, NoTask
  <1>3. approvals' = approvals
    BY DEF CreateProjectManagerPlan
  <1>4. \A t \in Tasks : tasks[t].run # r
    BY <1>1, ConstantsAssumption DEF IInv, PlansComplete
  <1>5. \A a \in ApprovalIds : approvals[a].run # r
    BY <1>4, ConstantsAssumption DEF IInv, PlansComplete, ApprovalAgreesWithTask
  <1>6. PlansComplete'
    BY <1>1, <1>2, <1>3, <1>4, ConstantsAssumption DEF IInv, PlansComplete, TypeOK, Task
  <1>7. ApprovalAgreesWithTask'
    <2>1. \A a \in ApprovalIds : approvals[a].task \notin chosen
      BY <1>2, ApprovalOfTask DEF StateUnderReview, TargetTaskState
    <2> QED
      BY <1>2, <1>3, <2>1 DEF IInv, ApprovalAgreesWithTask
  <1>8. RunWaitsForItsApprovals'
    BY <1>1, <1>3, <1>5 DEF IInv, RunWaitsForItsApprovals, BlockingRun
  <1>9. RunOutcomeFollowsTasks'
    <2> SUFFICES ASSUME NEW q \in Runs, runs'[q].status # "absent"
                 PROVE  /\ runs'[q].status = "done" <=>
                             \A t \in Tasks : tasks'[t].run = q => tasks'[t].state = "done"
                        /\ runs'[q].status = "failed" <=>
                             /\ \E t \in Tasks : tasks'[t].run = q /\ tasks'[t].state = "blocked"
                             /\ \A t \in Tasks : tasks'[t].run = q =>
                                  tasks'[t].state # "waiting_approval"
      BY DEF RunOutcomeFollowsTasks
    <2>1. CASE q = r
      BY <1>1, <1>2, <1>4, <2>1
    <2>2. CASE q # r
      BY <1>1, <1>2, <2>2, ConstantsAssumption DEF IInv, RunOutcomeFollowsTasks, PlansComplete
    <2> QED
      BY <2>1, <2>2
  <1> QED
    BY <1>6, <1>7, <1>8, <1>9 DEF IInv

-----------------------------------------------------------------------------
(* Claim and release.  Neither touches an approval, and for the invariant  *)
(* the task only moves between todo and in_progress: the state of its      *)
(* approval, if it has one, is that of a task handed back for revision.    *)

LEMMA QuietIInv ==
  ASSUME IInv, TypeOK', UNCHANGED approvals,
         \A t \in Tasks :
           /\ tasks'[t].run = tasks[t].run
           /\ \/ tasks'[t].state = tasks[t].state
              \/ tasks[t].state = "todo" /\ tasks'[t].state = "in_progress",
         \A r \in Runs :
           \/ runs'[r] = runs[r]
           \/ runs[r].status = "planned" /\ runs'[r].status = "running"
  PROVE  IInv'
  <1>1. PlansComplete'
    <2>1. ASSUME NEW t \in Tasks
          PROVE  /\ tasks'[t].state # "failed"
                 /\ tasks'[t].state = "absent" <=> tasks'[t].run = None
                 /\ tasks'[t].state # "absent" => runs'[tasks'[t].run].status # "absent"
      <3>1. tasks[t].state # "absent" =>
              tasks[t].run \in Runs /\ runs[tasks[t].run].status # "absent"
        BY HomeOfTask
      <3>2. tasks[t].state # "failed" /\ (tasks[t].state = "absent" <=> tasks[t].run = None)
        BY DEF IInv, PlansComplete
      <3> QED
        BY <3>1, <3>2
    <2>2. \A r \in Runs : runs'[r].status # "absent" => \E t \in Tasks : tasks'[t].run = r
      BY DEF IInv, PlansComplete
    <2> QED
      BY <2>1, <2>2 DEF IInv, PlansComplete
  <1>2. ApprovalAgreesWithTask'
    <2>1. \A a \in ApprovalIds, t \in Tasks :
            approvals[a].task = t => tasks[t].state # "todo"
      BY ApprovalOfTask DEF StateUnderReview, TargetTaskState
    <2> QED
      BY <2>1 DEF IInv, ApprovalAgreesWithTask
  <1>3. RunWaitsForItsApprovals'
    BY DEF IInv, RunWaitsForItsApprovals, BlockingRun
  <1>4. RunOutcomeFollowsTasks'
    BY DEF IInv, RunOutcomeFollowsTasks
  <1> QED
    BY <1>1, <1>2, <1>3, <1>4 DEF IInv

LEMMA ClaimIInv ==
  ASSUME IInv, NEW t \in Tasks, NEW r \in Runs, NEW o \in Owners,
         ClaimTaskExecution(t, r, o), TypeOK'
  PROVE  IInv'
  <1>1. \A u \in Tasks : /\ tasks'[u].run = tasks[u].run
                         /\ \/ tasks'[u].state = tasks[u].state
                            \/ tasks[u].state = "todo" /\ tasks'[u].state = "in_progress"
    BY DEF ClaimTaskExecution, ClaimAllowed, ClaimableStates, ClaimedTask, IInv, TypeOK, Task
  <1>2. \A q \in Runs : \/ runs'[q] = runs[q]
                        \/ runs[q].status = "planned" /\ runs'[q].status = "running"
    BY DEF ClaimTaskExecution, RunAfterClaim, IInv, TypeOK, Run
  <1> QED
    BY <1>1, <1>2, QuietIInv DEF ClaimTaskExecution

LEMMA ReleaseIInv ==
  ASSUME IInv, NEW t \in Tasks, NEW r \in Runs, NEW o \in Owners,
         ReleaseTaskExecution(t, r, o), TypeOK'
  PROVE  IInv'
  <1>1. \A u \in Tasks : /\ tasks'[u].run = tasks[u].run
                         /\ tasks'[u].state = tasks[u].state
    BY DEF ReleaseTaskExecution, ReleasedTask, IInv, TypeOK, Task
  <1> QED
    BY <1>1, QuietIInv DEF ReleaseTaskExecution

-----------------------------------------------------------------------------
(* Submission.                                                             *)

LEMMA SubmitIInv ==
  ASSUME IInv, NEW t \in Tasks, NEW r \in Runs, NEW o \in Owners,
         NEW fresh \in ApprovalIds, SubmitTaskOutput(t, r, o, fresh), TypeOK'
  PROVE  IInv'
  <1> DEFINE home == tasks[t].run
  <1>1. /\ tasks[t].state \in {"todo", "in_progress"}
        /\ tasks'[t].state = "waiting_approval"
        /\ tasks'[t].run = home
        /\ \A u \in Tasks \ {t} : tasks'[u] = tasks[u]
    BY DEF SubmitTaskOutput, ClaimAllowed, ClaimableStates, ClaimedTask,
           SubmittedTask, IInv, TypeOK, Task
  <1>2. home \in Runs /\ runs[home].status # "absent"
    BY <1>1 DEF IInv, PlansComplete, TypeOK, Task
  <1>3. /\ runs'[home].status = "waiting_approval"
        /\ runs[home].status \in {"planned", "running", "waiting_approval"}
        /\ \A q \in Runs \ {home} :
             \/ runs'[q] = runs[q]
             \/ runs[q].status = "planned" /\ runs'[q].status = "running"
    <2> DEFINE claimed == [runs EXCEPT ![r] = RunAfterClaim(@)]
    <2>1. \A q \in Runs :
            \/ claimed[q] = runs[q]
            \/ runs[q].status = "planned" /\ claimed[q].status = "running"
      BY DEF RunAfterClaim, IInv, TypeOK, Run
    <2>2. \A q \in Runs : claimed[q] \in Run
      BY RunRows DEF IInv, TypeOK, RunStatuses
    <2>3. claimed \in [Runs -> Run]
      BY RunRows DEF IInv, TypeOK, RunStatuses
    <2>4. /\ CanTransitionRun(claimed[home].status, "waiting_approval")
          /\ runs' = [claimed EXCEPT ![home] = RunAfterSubmission(@)]
      BY DEF SubmitTaskOutput
    <2> HIDE DEF claimed
    <2>5. claimed[home].status \in {"planned", "running", "waiting_approval"}
      BY <2>2, <2>4, <1>2, <2>1 DEF CanTransitionRun, AllowedRunTargets, Run, RunStatuses
    <2>6. runs'[home].status = "waiting_approval"
      BY <2>2, <2>3, <2>4, <1>2 DEF RunAfterSubmission, Run
    <2> QED
      BY <1>2, <2>1, <2>3, <2>4, <2>5, <2>6
  <1>4. PICK a \in ApprovalIds :
          /\ \A b \in ApprovalIds \ {a} : approvals'[b] = approvals[b]
          /\ \A b \in ApprovalIds \ {a} : approvals[b].task # t
          /\ approvals'[a].status \in UnresolvedStatuses
          /\ approvals'[a].task = t
          /\ approvals'[a].run = home
          /\ \/ approvals[a].status = "absent"
             \/ approvals[a].status = "revision_requested" /\ approvals[a].task = t
    <2>1. CASE /\ ApprovalsOf(t) = {}
               /\ approvals[fresh].status = "absent"
               /\ approvals' = [approvals EXCEPT ![fresh] = RequestedApproval(t, o)]
      BY <2>1 DEF ApprovalsOf, RequestedApproval, NoApproval, IInv, TypeOK, UnresolvedStatuses
    <2>2. CASE \E a \in ApprovalIds :
                 /\ ApprovalsOf(t) = {a}
                 /\ approvals[a].status = "revision_requested"
                 /\ approvals' = [approvals EXCEPT ![a] = ResubmittedApproval(@)]
      <3>1. PICK a \in ApprovalIds :
                 /\ ApprovalsOf(t) = {a}
                 /\ approvals[a].status = "revision_requested"
                 /\ approvals' = [approvals EXCEPT ![a] = ResubmittedApproval(@)]
        BY <2>2
      <3>2. approvals[a].task = t /\ \A b \in ApprovalIds \ {a} : approvals[b].task # t
        BY <3>1 DEF ApprovalsOf
      <3>3. approvals[a].run = home
        BY <3>2, ApprovalOfTask
      <3> QED
        BY <3>1, <3>2, <3>3 DEF ResubmittedApproval, IInv, TypeOK, Approval, UnresolvedStatuses
    <2> QED
      BY <2>1, <2>2 DEF SubmitTaskOutput, RecordSubmission
  <1> HIDE DEF home
  <1> USE <1>1, <1>2, <1>3, <1>4
  <1>5. PlansComplete'
    <2>1. ASSUME NEW u \in Tasks
          PROVE  /\ tasks'[u].state # "failed"
                 /\ tasks'[u].state = "absent" <=> tasks'[u].run = None
                 /\ tasks'[u].state # "absent" => runs'[tasks'[u].run].status # "absent"
      <3>1. tasks[u].state # "absent" =>
              tasks[u].run \in Runs /\ runs[tasks[u].run].status # "absent"
        BY HomeOfTask
      <3>2. tasks[u].state # "failed" /\ (tasks[u].state = "absent" <=> tasks[u].run = None)
        BY DEF IInv, PlansComplete
      <3>3. home # None
        BY ConstantsAssumption
      <3> QED
        BY <3>1, <3>2, <3>3
    <2>2. \A q \in Runs : runs'[q].status # "absent" => \E u \in Tasks : tasks'[u].run = q
      BY DEF IInv, PlansComplete, home
    <2>3. \A b \in ApprovalIds : approvals'[b].status = "absent" =>
            approvals'[b].task = None /\ approvals'[b].run = None
      BY DEF IInv, PlansComplete, UnresolvedStatuses
    <2> QED
      BY <2>1, <2>2, <2>3 DEF PlansComplete
  <1>6. ApprovalAgreesWithTask'
    <2>1. \A b, c \in ApprovalIds :
             approvals'[b].status # "absent" /\ approvals'[c].status # "absent"
               /\ approvals'[b].task = approvals'[c].task => b = c
      BY DEF IInv, ApprovalAgreesWithTask
    <2>2. \A b \in ApprovalIds : approvals'[b].status # "absent" =>
            \E u \in Tasks : /\ approvals'[b].task = u
                             /\ approvals'[b].run = tasks'[u].run
                             /\ tasks'[u].state = StateUnderReview(approvals'[b].status)
      BY DEF IInv, ApprovalAgreesWithTask, StateUnderReview
    <2>3. \A u \in Tasks : tasks'[u].state \in {"waiting_approval", "done", "blocked"} =>
            \E b \in ApprovalIds : approvals'[b].status # "absent" /\ approvals'[b].task = u
      BY DEF IInv, ApprovalAgreesWithTask, UnresolvedStatuses
    <2> QED
      BY <2>1, <2>2, <2>3 DEF ApprovalAgreesWithTask
  <1>7. RunWaitsForItsApprovals'
    <2> SUFFICES ASSUME NEW q \in Runs
                 PROVE  runs'[q].status = "waiting_approval" <=>
                          \E b \in ApprovalIds : /\ approvals'[b].run = q
                                                 /\ approvals'[b].status \in UnresolvedStatuses
      BY DEF RunWaitsForItsApprovals, BlockingRun
    <2>1. CASE q = home
      BY <2>1
    <2>2. CASE q # home
      BY <2>2 DEF IInv, RunWaitsForItsApprovals, BlockingRun, UnresolvedStatuses
    <2> QED
      BY <2>1, <2>2
  <1>8. RunOutcomeFollowsTasks'
    <2> SUFFICES ASSUME NEW q \in Runs, runs'[q].status # "absent"
                 PROVE  /\ runs'[q].status = "done" <=>
                             \A u \in Tasks : tasks'[u].run = q => tasks'[u].state = "done"
                        /\ runs'[q].status = "failed" <=>
                             /\ \E u \in Tasks : tasks'[u].run = q /\ tasks'[u].state = "blocked"
                             /\ \A u \in Tasks : tasks'[u].run = q =>
                                  tasks'[u].state # "waiting_approval"
      BY DEF RunOutcomeFollowsTasks
    <2>1. CASE q = home
      BY <2>1
    <2>2. CASE q # home
      BY <2>2 DEF IInv, RunOutcomeFollowsTasks, home
    <2> QED
      BY <2>1, <2>2
  <1> QED
    BY <1>5, <1>6, <1>7, <1>8 DEF IInv

-----------------------------------------------------------------------------
(* Decision.  The run's move looks at the tasks and approvals the decision *)
(* left behind: with no unresolved approval of the run none of its tasks   *)
(* waits, so what its tasks are decides what the run becomes.              *)

LEMMA DecideIInv ==
  ASSUME IInv, NEW t \in Tasks, NEW decision \in Decisions, NEW u \in Users,
         DecideTaskApproval(t, decision, u), TypeOK'
  PROVE  IInv'
  <1>1. PICK a \in ApprovalIds :
          /\ ApprovalsOf(t) = {a}
          /\ approvals[a].status \in UnresolvedStatuses
          /\ approvals' = [approvals EXCEPT ![a] = DecidedApproval(@, decision, u)]
          /\ tasks[t].state = "waiting_approval"
          /\ tasks' = [tasks EXCEPT ![t] = DecidedTask(@, decision)]
          /\ MoveRunAfterDecision(approvals[a].run, tasks', approvals')
    BY DEF DecideTaskApproval
  <1> DEFINE home == tasks[t].run
             target == RunStatusAfterDecision(tasks', home)
  <1>2. /\ approvals[a].task = t
        /\ approvals[a].run = home
        /\ home \in Runs
        /\ \A b \in ApprovalIds \ {a} : approvals[b].task # t
    <2>1. approvals[a].task = t /\ \A b \in ApprovalIds \ {a} : approvals[b].task # t
      BY <1>1 DEF ApprovalsOf
    <2> QED
      BY <1>1, <2>1, ApprovalOfTask, HomeOfTask
  <1>3. /\ tasks'[t].state = TargetTaskState(decision)
        /\ tasks'[t].state \in {"done", "in_progress", "blocked"}
        /\ tasks'[t].run = home
        /\ \A v \in Tasks \ {t} : tasks'[v] = tasks[v]
    BY <1>1 DEF DecidedTask, TargetTaskState, Decisions, IInv, TypeOK, Task
  <1>4. /\ approvals'[a].status = decision
        /\ approvals'[a].task = t
        /\ approvals'[a].run = home
        /\ \A b \in ApprovalIds \ {a} : approvals'[b] = approvals[b]
    BY <1>1, <1>2 DEF DecidedApproval, IInv, TypeOK, Approval
  <1>5. runs[home].status = "waiting_approval"
    BY <1>1, <1>2 DEF IInv, RunWaitsForItsApprovals, BlockingRun
  <1>6. /\ \A q \in Runs \ {home} : runs'[q] = runs[q]
        /\ \/ BlockingRun(approvals', home) # {} /\ runs'[home].status = "waiting_approval"
           \/ BlockingRun(approvals', home) = {} /\ runs'[home].status = target
    <2>1. runs' = IF BlockingRun(approvals', home) = {}
                  THEN [runs EXCEPT ![home] = RunAfterDecision(@, target)]
                  ELSE runs
      BY <1>1, <1>2, <1>5, Zenon DEF MoveRunAfterDecision
    <2>2. \A run \in Run : RunAfterDecision(run, target).status = target
      <3> HIDE DEF target
      <3> QED
        BY DEF RunAfterDecision, Run
    <2> HIDE DEF target
    <2> QED
      BY <1>2, <1>5, <2>1, <2>2 DEF IInv, TypeOK
  <1>7. \A v \in Tasks : tasks'[v].state # "failed"
    BY <1>3 DEF IInv, PlansComplete
  <1>8. /\ target = "failed" <=>
             \E v \in Tasks : tasks'[v].run = home /\ tasks'[v].state = "blocked"
        /\ target = "done" <=>
             \A v \in Tasks : tasks'[v].run = home => tasks'[v].state = "done"
        /\ target \in {"failed", "done", "running"}
    BY <1>3, <1>7 DEF RunStatusAfterDecision
  <1> HIDE DEF home, target
  <1>9. PlansComplete'
    <2>1. ASSUME NEW v \in Tasks
          PROVE  /\ tasks'[v].state # "failed"
                 /\ tasks'[v].state = "absent" <=> tasks'[v].run = None
                 /\ tasks'[v].state # "absent" => runs'[tasks'[v].run].status # "absent"
      <3>1. tasks[v].state # "absent" =>
              tasks[v].run \in Runs /\ runs[tasks[v].run].status # "absent"
        BY HomeOfTask
      <3>2. tasks[v].state = "absent" <=> tasks[v].run = None
        BY DEF IInv, PlansComplete
      <3> QED
        BY <1>2, <1>3, <1>6, <1>7, <1>8, <3>1, <3>2, ConstantsAssumption
    <2>2. \A q \in Runs : runs'[q].status # "absent" => \E v \in Tasks : tasks'[v].run = q
      BY <1>3, <1>6 DEF IInv, PlansComplete, home
    <2>3. \A b \in ApprovalIds : approvals'[b].status = "absent" =>
            approvals'[b].task = None /\ approvals'[b].run = None
      BY <1>4 DEF IInv, PlansComplete, Decisions
    <2> QED
      BY <2>1, <2>2, <2>3 DEF PlansComplete
  <1>10. ApprovalAgreesWithTask'
    <2>1. \A b, c \in ApprovalIds :
             approvals'[b].status # "absent" /\ approvals'[c].status # "absent"
               /\ approvals'[b].task = approvals'[c].task => b = c
      BY <1>2, <1>4 DEF IInv, ApprovalAgreesWithTask
    <2>2. \A b \in ApprovalIds : approvals'[b].status # "absent" =>
            \E v \in Tasks : /\ approvals'[b].task = v
                             /\ approvals'[b].run = tasks'[v].run
                             /\ tasks'[v].state = StateUnderReview(approvals'[b].status)
      <3>1. StateUnderReview(decision) = TargetTaskState(decision)
        BY DEF StateUnderReview, Decisions, UnresolvedStatuses
      <3> QED
        BY <1>2, <1>3, <1>4, <3>1 DEF IInv, ApprovalAgreesWithTask
    <2>3. \A v \in Tasks : tasks'[v].state \in {"waiting_approval", "done", "blocked"} =>
            \E b \in ApprovalIds : approvals'[b].status # "absent" /\ approvals'[b].task = v
      BY <1>2, <1>3, <1>4 DEF IInv, ApprovalAgreesWithTask, Decisions
    <2> QED
      BY <2>1, <2>2, <2>3 DEF ApprovalAgreesWithTask
  <1>11. RunWaitsForItsApprovals'
    <2> SUFFICES ASSUME NEW q \in Runs
                 PROVE  runs'[q].status = "waiting_approval" <=>
                          BlockingRun(approvals', q) # {}
      BY DEF RunWaitsForItsApprovals, BlockingRun
    <2>1. CASE q = home
      BY <1>6, <1>8, <2>1
    <2>2. CASE q # home
      <3>1. BlockingRun(approvals', q) = BlockingRun(approvals, q)
        BY <1>2, <1>4, <2>2 DEF BlockingRun
      <3> QED
        BY <1>6, <2>2, <3>1 DEF IInv, RunWaitsForItsApprovals
    <2> QED
      BY <2>1, <2>2
  <1>12. RunOutcomeFollowsTasks'
    <2> SUFFICES ASSUME NEW q \in Runs, runs'[q].status # "absent"
                 PROVE  /\ runs'[q].status = "done" <=>
                             \A v \in Tasks : tasks'[v].run = q => tasks'[v].state = "done"
                        /\ runs'[q].status = "failed" <=>
                             /\ \E v \in Tasks : tasks'[v].run = q /\ tasks'[v].state = "blocked"
                             /\ \A v \in Tasks : tasks'[v].run = q =>
                                  tasks'[v].state # "waiting_approval"
      BY DEF RunOutcomeFollowsTasks
    \* A task of the run waits exactly when the run has an unresolved approval.
    <2>1. (\E v \in Tasks : tasks'[v].run = home /\ tasks'[v].state = "waiting_approval")
            <=> BlockingRun(approvals', home) # {}
      <3>1. ASSUME NEW v \in Tasks, tasks'[v].run = home,
                   tasks'[v].state = "waiting_approval"
            PROVE  BlockingRun(approvals', home) # {}
        <4>1. PICK b \in ApprovalIds : approvals'[b].status # "absent" /\ approvals'[b].task = v
          BY <1>10, <3>1 DEF ApprovalAgreesWithTask
        <4>2. approvals'[b].run = home
                /\ StateUnderReview(approvals'[b].status) = "waiting_approval"
          BY <1>10, <3>1, <4>1 DEF ApprovalAgreesWithTask
        <4>3. approvals'[b].status \in UnresolvedStatuses
          BY <4>2 DEF StateUnderReview, TargetTaskState
        <4> QED
          BY <4>2, <4>3 DEF BlockingRun
      <3>2. ASSUME NEW b \in ApprovalIds, approvals'[b].run = home,
                   approvals'[b].status \in UnresolvedStatuses
            PROVE  \E v \in Tasks : tasks'[v].run = home /\ tasks'[v].state = "waiting_approval"
        BY <1>10, <3>2 DEF ApprovalAgreesWithTask, StateUnderReview, UnresolvedStatuses
      <3> QED
        BY <3>1, <3>2 DEF BlockingRun
    <2>2. CASE q = home
      BY <1>3, <1>6, <1>8, <2>1, <2>2
    <2>3. CASE q # home
      BY <1>3, <1>6, <2>3 DEF IInv, RunOutcomeFollowsTasks, home
    <2> QED
      BY <2>2, <2>3
  <1> QED
    BY <1>9, <1>10, <1>11, <1>12 DEF IInv

-----------------------------------------------------------------------------
(* The safety theorems.                                                    *)

LEMMA NextIInv == IInv /\ [Next]_vars => IInv'
  <1> SUFFICES ASSUME IInv, [Next]_vars PROVE IInv'
    OBVIOUS
  <1>1. TypeOK'
    BY NextTypeOK DEF IInv
  <1>2. CASE PlanStep
    BY <1>1, <1>2, PlanIInv DEF PlanStep
  <1>3. CASE ClaimStep
    BY <1>1, <1>3, ClaimIInv DEF ClaimStep
  <1>4. CASE ReleaseStep
    BY <1>1, <1>4, ReleaseIInv DEF ReleaseStep
  <1>5. CASE SubmitStep
    BY <1>1, <1>5, SubmitIInv DEF SubmitStep
  <1>6. CASE DecideStep
    BY <1>1, <1>6, DecideIInv DEF DecideStep
  <1>7. CASE UNCHANGED vars
    BY <1>1, <1>7 DEF vars, IInv, PlansComplete, ApprovalAgreesWithTask,
       RunWaitsForItsApprovals, RunOutcomeFollowsTasks, BlockingRun
  <1> QED
    BY <1>2, <1>3, <1>4, <1>5, <1>6, <1>7 DEF Next

THEOREM Invariance == Spec => []IInv
  BY InitIInv, NextIInv, PTL DEF Spec

\* However many runs, tasks and approvals there are, and whatever runs the
\* outputs are submitted under, a task and its approval never disagree.
THEOREM ApprovalsAgree == Spec => []ApprovalAgreesWithTask
  <1>1. IInv => ApprovalAgreesWithTask
    BY DEF IInv
  <1> QED
    BY <1>1, Invariance, PTL

\* A run waits for approval exactly while one of its approvals is unresolved.
THEOREM RunsWait == Spec => []RunWaitsForItsApprovals
  <1>1. IInv => RunWaitsForItsApprovals
    BY DEF IInv
  <1> QED
    BY <1>1, Invariance, PTL

\* A run is done or failed exactly when that is what its tasks have come to.
THEOREM RunsFollowTasks == Spec => []RunOutcomeFollowsTasks
  <1>1. IInv => RunOutcomeFollowsTasks
    BY DEF IInv
  <1> QED
    BY <1>1, Invariance, PTL

-----------------------------------------------------------------------------
(* Locks and ownership.  LockConsistent needs only the types to carry      *)
(* itself over a step.                                                     *)

LEMMA InitLock == Init => LockConsistent
  BY ConstantsAssumption DEF Init, LockConsistent, NoTask, Owners

\* LockConsistent of one row.
LockedRow(task) ==
  /\ task.execution # None => task.execution = task.checkout /\ task.state = "in_progress"
  /\ task.checkout = None <=> task.state \in {"absent", "todo"}
  /\ task.checkout = None <=> task.owner = None
  /\ task.owner \in Roles => task.owner = task.role
  /\ task.owner \in Runs => task.owner = task.checkout

LEMMA LockedRows ==
  ASSUME NEW task \in Task, LockedRow(task)
  PROVE  /\ LockedRow(ReleasedTask(task))
         /\ \A r \in Runs, o \in Owners :
              (o \in Roles => o = task.role) /\ (o \in Runs => o = r) =>
                /\ LockedRow(ClaimedTask(task, r, o))
                /\ LockedRow(SubmittedTask(ClaimedTask(task, r, o)))
         /\ \A decision \in Decisions :
              task.state = "waiting_approval" => LockedRow(DecidedTask(task, decision))
  <1>1. LockedRow(ReleasedTask(task))
    BY DEF LockedRow, ReleasedTask, Task
  <1>2. ASSUME NEW r \in Runs, NEW o \in Owners,
               o \in Roles => o = task.role, o \in Runs => o = r
        PROVE  /\ LockedRow(ClaimedTask(task, r, o))
               /\ LockedRow(SubmittedTask(ClaimedTask(task, r, o)))
    <2>1. r # None /\ o # None
      BY ConstantsAssumption DEF Owners
    <2> QED
      BY <1>2, <2>1 DEF LockedRow, ClaimedTask, SubmittedTask, Task
  <1>3. ASSUME NEW decision \in Decisions, task.state = "waiting_approval"
        PROVE  LockedRow(DecidedTask(task, decision))
    BY <1>3 DEF LockedRow, DecidedTask, TargetTaskState, Task
  <1> QED
    BY <1>1, <1>2, <1>3

LEMMA NextLock == TypeOK /\ LockConsistent /\ [Next]_vars => LockConsistent'
  <1> SUFFICES ASSUME TypeOK, LockConsistent, [Next]_vars, NEW v \in Tasks
               PROVE  LockedRow(tasks'[v])
    BY DEF LockConsistent, LockedRow
  <1>1. tasks[v] \in Task /\ LockedRow(tasks[v])
    BY DEF TypeOK, LockConsistent, LockedRow
  <1>2. CASE PlanStep
    <2>1. tasks'[v] = tasks[v] \/ \E r \in Runs, k \in Roles :
            tasks'[v] = [NoTask EXCEPT !.state = "todo", !.run = r, !.role = k]
      BY <1>2 DEF PlanStep, CreateProjectManagerPlan
    <2>2. \A r \in Runs, k \in Roles :
            LockedRow([NoTask EXCEPT !.state = "todo", !.run = r, !.role = k])
      BY ConstantsAssumption DEF LockedRow, NoTask
    <2> QED
      BY <1>1, <2>1, <2>2
  <1>3. CASE ClaimStep
    <2>1. PICK t \in Tasks, r \in Runs, o \in Owners : ClaimTaskExecution(t, r, o)
      BY <1>3 DEF ClaimStep
    <2>2. v = t => /\ tasks'[v] = ClaimedTask(tasks[v], r, o)
                   /\ o \in Roles => o = tasks[v].role
                   /\ o \in Runs => o = r
      BY <2>1 DEF ClaimTaskExecution, ClaimAllowed, OwnerIdentityOk,
                  AgentMatchesAssignment, TypeOK
    <2>3. v # t => tasks'[v] = tasks[v]
      BY <2>1 DEF ClaimTaskExecution, TypeOK
    <2> QED
      BY <1>1, <2>2, <2>3, LockedRows
  <1>4. CASE ReleaseStep
    <2>1. tasks'[v] \in {tasks[v], ReleasedTask(tasks[v])}
      BY <1>4 DEF ReleaseStep, ReleaseTaskExecution, TypeOK
    <2> QED
      BY <1>1, <2>1, LockedRows
  <1>5. CASE SubmitStep
    <2>1. PICK t \in Tasks, r \in Runs, o \in Owners, fresh \in ApprovalIds :
            SubmitTaskOutput(t, r, o, fresh)
      BY <1>5 DEF SubmitStep
    <2>2. v = t => /\ tasks'[v] = SubmittedTask(ClaimedTask(tasks[v], r, o))
                   /\ o \in Roles => o = tasks[v].role
                   /\ o \in Runs => o = r
      BY <2>1 DEF SubmitTaskOutput, ClaimAllowed, OwnerIdentityOk,
                  AgentMatchesAssignment, TypeOK
    <2>3. v # t => tasks'[v] = tasks[v]
      BY <2>1 DEF SubmitTaskOutput, TypeOK
    <2> QED
      BY <1>1, <2>2, <2>3, LockedRows
  <1>6. CASE DecideStep
    <2>1. PICK t \in Tasks, decision \in Decisions, u \in Users :
            DecideTaskApproval(t, decision, u)
      BY <1>6 DEF DecideStep
    <2>2. v = t => /\ tasks[v].state = "waiting_approval"
                   /\ tasks'[v] = DecidedTask(tasks[v], decision)
      BY <2>1 DEF DecideTaskApproval, TypeOK
    <2>3. v # t => tasks'[v] = tasks[v]
      BY <2>1 DEF DecideTaskApproval, TypeOK
    <2> QED
      BY <1>1, <2>2, <2>3, LockedRows
  <1>7. CASE UNCHANGED vars
    BY <1>1, <1>7 DEF vars
  <1> QED
    BY <1>2, <1>3, <1>4, <1>5, <1>6, <1>7 DEF Next

\* An execution lock belongs to the run and the owner that checked the task
\* out, an agent only ever holds the task of its role, and nobody holds a lock
\* on a task that is not in progress.
THEOREM LocksAreConsistent == Spec => []LockConsistent
  <1>1. TypeOK /\ LockConsistent /\ [Next]_vars => (TypeOK /\ LockConsistent)'
    BY NextTypeOK, NextLock
  <1> QED
    BY <1>1, InitTypeOK, InitLock, PTL DEF Spec

LEMMA OwnershipStep ==
  ASSUME TypeOK, LockConsistent, [Next]_vars, NEW v \in Tasks,
         tasks[v].checkout # None
  PROVE  tasks'[v].checkout = tasks[v].checkout /\ tasks'[v].owner = tasks[v].owner
  <1> USE DEF TypeOK, Task
  <1>1. tasks[v].owner # None /\ tasks[v].state # "absent"
    BY DEF LockConsistent
  <1>2. CASE PlanStep
    BY <1>1, <1>2 DEF PlanStep, CreateProjectManagerPlan
  <1>3. CASE ClaimStep
    BY <1>1, <1>3 DEF ClaimStep, ClaimTaskExecution, ClaimAllowed, NoClaimConflict, ClaimedTask
  <1>4. CASE ReleaseStep
    BY <1>4 DEF ReleaseStep, ReleaseTaskExecution, ReleasedTask
  <1>5. CASE SubmitStep
    BY <1>1, <1>5 DEF SubmitStep, SubmitTaskOutput, ClaimAllowed, NoClaimConflict,
                      ClaimedTask, SubmittedTask
  <1>6. CASE DecideStep
    BY <1>6 DEF DecideStep, DecideTaskApproval, DecidedTask
  <1>7. CASE UNCHANGED vars
    BY <1>7 DEF vars
  <1> QED
    BY <1>2, <1>3, <1>4, <1>5, <1>6, <1>7 DEF Next

\* Whatever is released, resubmitted or decided, a task that a run and an
\* owner have checked out never passes to another pair.
THEOREM OwnersKeepTheirTasks == Spec => OwnershipIsPermanent
  <1>1. TypeOK /\ LockConsistent /\ [Next]_vars =>
          [\A t \in Tasks : tasks[t].checkout # None =>
             /\ tasks'[t].checkout = tasks[t].checkout
             /\ tasks'[t].owner = tasks[t].owner]_vars
    BY OwnershipStep
  <1> QED
    BY <1>1, TypeCorrect, LocksAreConsistent, PTL DEF Spec, OwnershipIsPermanent

-----------------------------------------------------------------------------
(* The approval gate and the finality of what is settled.                  *)

LEMMA GateStep ==
  ASSUME IInv, [Next]_vars, NEW v \in Tasks,
         tasks[v].state = "waiting_approval", tasks'[v].state # "waiting_approval"
  PROVE  \E a \in ApprovalIds : /\ approvals[a].task = v
                                /\ approvals[a].status \in UnresolvedStatuses
                                /\ approvals'[a].status \in Decisions
                                /\ approvals'[a].decidedBy \in Users
  <1> USE DEF IInv, TypeOK
  <1>1. CASE PlanStep
    BY <1>1 DEF PlanStep, CreateProjectManagerPlan
  <1>2. CASE ClaimStep
    BY <1>2 DEF ClaimStep, ClaimTaskExecution, ClaimAllowed, ClaimableStates
  <1>3. CASE ReleaseStep
    BY <1>3 DEF ReleaseStep, ReleaseTaskExecution, ReleasedTask, Task
  <1>4. CASE SubmitStep
    BY <1>4 DEF SubmitStep, SubmitTaskOutput, ClaimAllowed, ClaimableStates
  <1>5. CASE DecideStep
    <2>1. PICK decision \in Decisions, u \in Users, a \in ApprovalIds :
            /\ ApprovalsOf(v) = {a}
            /\ approvals[a].status \in UnresolvedStatuses
            /\ approvals' = [approvals EXCEPT ![a] = DecidedApproval(@, decision, u)]
      BY <1>5 DEF DecideStep, DecideTaskApproval
    <2>2. approvals[a].task = v
      BY <2>1 DEF ApprovalsOf
    <2>3. approvals'[a].status = decision /\ approvals'[a].decidedBy = u
      BY <2>1 DEF DecidedApproval, Approval
    <2> QED
      BY <2>1, <2>2, <2>3
  <1>6. CASE UNCHANGED vars
    BY <1>6 DEF vars
  <1> QED
    BY <1>1, <1>2, <1>3, <1>4, <1>5, <1>6 DEF Next

\* No interleaving of claims, releases, submissions and decisions takes a
\* task, or a run, past an approval that nobody has resolved.
THEOREM NoBypassOfTheGate == Spec => GateNeverBypassed
  <1>1. IInv /\ IInv' /\ [Next]_vars =>
          [/\ \A t \in Tasks :
                tasks[t].state = "waiting_approval" /\ tasks'[t].state # "waiting_approval" =>
                  \E a \in ApprovalIds :
                    /\ approvals[a].task = t
                    /\ approvals[a].status \in UnresolvedStatuses
                    /\ approvals'[a].status \in Decisions
                    /\ approvals'[a].decidedBy \in Users
           /\ \A r \in Runs :
                runs[r].status = "waiting_approval" /\ runs'[r].status # "waiting_approval" =>
                  \A a \in ApprovalIds :
                    approvals'[a].run = r => approvals'[a].status \notin UnresolvedStatuses]_vars
    <2> SUFFICES ASSUME IInv, IInv', [Next]_vars
                 PROVE  /\ \A t \in Tasks :
                             tasks[t].state = "waiting_approval"
                               /\ tasks'[t].state # "waiting_approval" =>
                               \E a \in ApprovalIds :
                                 /\ approvals[a].task = t
                                 /\ approvals[a].status \in UnresolvedStatuses
                                 /\ approvals'[a].status \in Decisions
                                 /\ approvals'[a].decidedBy \in Users
                        /\ \A r \in Runs :
                             runs[r].status = "waiting_approval"
                               /\ runs'[r].status # "waiting_approval" =>
                               \A a \in ApprovalIds : approvals'[a].run = r =>
                                 approvals'[a].status \notin UnresolvedStatuses
      OBVIOUS
    <2>1. \A r \in Runs : runs'[r].status # "waiting_approval" =>
            \A a \in ApprovalIds :
              approvals'[a].run = r => approvals'[a].status \notin UnresolvedStatuses
      BY DEF IInv, RunWaitsForItsApprovals, BlockingRun
    <2> QED
      BY <2>1, GateStep
  <1> QED
    BY <1>1, Invariance, PTL DEF Spec, GateNeverBypassed

LEMMA SettledStep ==
  ASSUME IInv, LockConsistent, [Next]_vars
  PROVE  /\ \A q \in Runs : runs[q].status \in {"done", "failed"} => runs'[q] = runs[q]
         /\ \A v \in Tasks : tasks[v].state \in {"done", "blocked"} => tasks'[v] = tasks[v]
         /\ \A b \in ApprovalIds : approvals[b].status \in {"approved", "rejected"} =>
              approvals'[b] = approvals[b]
  <1> USE DEF IInv, TypeOK
  <1>1. CASE PlanStep
    BY <1>1 DEF PlanStep, CreateProjectManagerPlan
  <1>2. CASE ClaimStep
    BY <1>2 DEF ClaimStep, ClaimTaskExecution, ClaimAllowed, ClaimableStates
  <1>3. CASE ReleaseStep
    <2>1. PICK t \in Tasks, r \in Runs, o \in Owners : ReleaseTaskExecution(t, r, o)
      BY <1>3 DEF ReleaseStep
    <2>2. tasks[t].state \in {"done", "blocked"} => ReleasedTask(tasks[t]) = tasks[t]
      <3>1. SUFFICES ASSUME tasks[t].state \in {"done", "blocked"}
                     PROVE  ReleasedTask(tasks[t]) = tasks[t]
        OBVIOUS
      <3>2. tasks[t].execution = None
        BY <3>1 DEF LockConsistent
      <3> QED
        BY <3>2 DEF ReleasedTask, Task
    <2> QED
      BY <2>1, <2>2 DEF ReleaseTaskExecution
  <1>4. CASE SubmitStep
    <2>1. PICK t \in Tasks, r \in Runs, o \in Owners, fresh \in ApprovalIds :
            SubmitTaskOutput(t, r, o, fresh)
      BY <1>4 DEF SubmitStep
    <2>2. \A v \in Tasks : tasks[v].state \in {"done", "blocked"} => tasks'[v] = tasks[v]
      BY <2>1 DEF SubmitTaskOutput, ClaimAllowed, ClaimableStates
    <2>3. \A b \in ApprovalIds : approvals[b].status \in {"approved", "rejected"} =>
            approvals'[b] = approvals[b]
      BY <2>1 DEF SubmitTaskOutput, RecordSubmission
    <2>4. ASSUME NEW q \in Runs, runs[q].status \in {"done", "failed"}
          PROVE  runs'[q] = runs[q]
      <3> DEFINE claimed == [runs EXCEPT ![r] = RunAfterClaim(@)]
                 home == tasks[t].run
      <3>1. claimed[q] = runs[q] /\ claimed \in [Runs -> Run]
        BY <2>4, RunRows DEF RunAfterClaim, RunStatuses
      <3>2. /\ CanTransitionRun(claimed[home].status, "waiting_approval")
            /\ runs' = [claimed EXCEPT ![home] = RunAfterSubmission(@)]
        BY <2>1 DEF SubmitTaskOutput
      <3> HIDE DEF claimed
      <3>3. home # q
        BY <2>4, <3>1, <3>2 DEF CanTransitionRun, AllowedRunTargets
      <3> QED
        BY <3>1, <3>2, <3>3
    <2> QED
      BY <2>2, <2>3, <2>4
  <1>5. CASE DecideStep
    <2>1. PICK t \in Tasks, decision \in Decisions, u \in Users :
            DecideTaskApproval(t, decision, u)
      BY <1>5 DEF DecideStep
    <2>2. PICK a \in ApprovalIds :
            /\ approvals[a].status \in UnresolvedStatuses
            /\ approvals' = [approvals EXCEPT ![a] = DecidedApproval(@, decision, u)]
            /\ tasks[t].state = "waiting_approval"
            /\ tasks' = [tasks EXCEPT ![t] = DecidedTask(@, decision)]
            /\ MoveRunAfterDecision(approvals[a].run, tasks', approvals')
      BY <2>1 DEF DecideTaskApproval
    <2>3. \A v \in Tasks : tasks[v].state \in {"done", "blocked"} => tasks'[v] = tasks[v]
      BY <2>2
    <2>4. \A b \in ApprovalIds : approvals[b].status \in {"approved", "rejected"} =>
            approvals'[b] = approvals[b]
      BY <2>2 DEF UnresolvedStatuses
    <2>5. \A q \in Runs : runs[q].status \in {"done", "failed"} => runs'[q] = runs[q]
      <3> DEFINE home == approvals[a].run
                 next == RunAfterDecision(runs[home], RunStatusAfterDecision(tasks', home))
      <3>1. \/ runs' = runs
            \/ runs[home].status = "waiting_approval" /\ runs' = [runs EXCEPT ![home] = next]
        BY <2>2, Zenon DEF MoveRunAfterDecision
      <3> HIDE DEF next, home
      <3> QED
        BY <3>1
    <2> QED
      BY <2>3, <2>4, <2>5
  <1>6. CASE UNCHANGED vars
    BY <1>6 DEF vars
  <1> QED
    BY <1>1, <1>2, <1>3, <1>4, <1>5, <1>6 DEF Next

\* A finished task, an ended run and a final decision are never written
\* again, although work on sibling tasks and under other runs goes on.
THEOREM SettledForGood == Spec => SettledStaysSettled
  <1>1. IInv /\ LockConsistent /\ [Next]_vars =>
          [/\ \A r \in Runs : runs[r].status \in {"done", "failed"} => runs'[r] = runs[r]
           /\ \A t \in Tasks : tasks[t].state \in {"done", "blocked"} => tasks'[t] = tasks[t]
           /\ \A a \in ApprovalIds : approvals[a].status \in {"approved", "rejected"} =>
                approvals'[a] = approvals[a]]_vars
    BY SettledStep
  <1> QED
    BY <1>1, Invariance, LocksAreConsistent, PTL DEF Spec, SettledStaysSettled

-----------------------------------------------------------------------------
(* The records of decisions and the timestamps.  What one row says of      *)
(* itself is carried by the operators that build rows; that the requester  *)
(* of an approval is the owner of its task rests on the permanence of      *)
(* ownership.                                                              *)

\* RecordsTellOneStory of one row of each table.
DecidedRow(approval) ==
  approval.status # "absent" =>
    /\ approval.decidedBy = None <=> approval.status \in UnresolvedStatuses
    /\ approval.status = "pending" => ~approval.revised
    /\ approval.status = "revision_requested" => approval.revised
    /\ approval.status = "resubmitted" => approval.resubmitted
    /\ approval.resubmitted => approval.revised

TimedRun(run) ==
  /\ run.started <=> run.status \notin {"absent", "planned"}
  /\ run.ended <=> run.status \in {"done", "failed"}

TimedTask(task) == task.completed <=> task.state = "done"

RequestedByOwner ==
  \A a \in ApprovalIds, t \in Tasks :
    approvals[a].status # "absent" /\ approvals[a].task = t =>
      approvals[a].requestedBy = tasks[t].owner

LEMMA RecordsByRow ==
  RecordsTellOneStory <=>
    /\ \A a \in ApprovalIds : DecidedRow(approvals[a])
    /\ \A r \in Runs : TimedRun(runs[r])
    /\ \A t \in Tasks : TimedTask(tasks[t])
    /\ RequestedByOwner
  BY Zenon DEF RecordsTellOneStory, DecisionRecordConsistent, TimestampsAgree, DecidedRow,
               TimedRun, TimedTask, RequestedByOwner

LEMMA DecidedRows ==
  ASSUME NEW approval \in Approval, DecidedRow(approval)
  PROVE  /\ \A t \in Tasks, o \in Owners : DecidedRow(RequestedApproval(t, o))
         /\ approval.status = "revision_requested" => DecidedRow(ResubmittedApproval(approval))
         /\ \A decision \in Decisions, u \in Users :
              approval.status \in UnresolvedStatuses =>
                DecidedRow(DecidedApproval(approval, decision, u))
  <1>1. \A t \in Tasks, o \in Owners : DecidedRow(RequestedApproval(t, o))
    BY DEF DecidedRow, RequestedApproval, NoApproval, UnresolvedStatuses
  <1>2. approval.status = "revision_requested" => DecidedRow(ResubmittedApproval(approval))
    BY DEF DecidedRow, ResubmittedApproval, Approval, UnresolvedStatuses
  <1>3. ASSUME NEW decision \in Decisions, NEW u \in Users,
               approval.status \in UnresolvedStatuses
        PROVE  DecidedRow(DecidedApproval(approval, decision, u))
    <2> DEFINE row == DecidedApproval(approval, decision, u)
    <2>1. /\ row.status = decision /\ row.decidedBy = u
          /\ row.resubmitted = approval.resubmitted
          /\ row.revised = IF decision = "revision_requested" THEN TRUE ELSE approval.revised
      BY DEF DecidedApproval, Approval
    <2>2. u # None /\ decision \notin UnresolvedStatuses
      BY ConstantsAssumption DEF Decisions, UnresolvedStatuses
    <2>3. approval.resubmitted => approval.revised
      BY <1>3 DEF DecidedRow, UnresolvedStatuses
    <2> HIDE DEF row
    <2>4. DecidedRow(row)
      BY <2>1, <2>2, <2>3 DEF DecidedRow, Decisions
    <2> QED
      BY <2>4 DEF row
  <1> QED
    BY <1>1, <1>2, <1>3

LEMMA TimedRuns ==
  ASSUME NEW run \in Run, TimedRun(run)
  PROVE  /\ TimedRun(RunAfterClaim(run))
         /\ TimedRun(RunAfterSubmission(run))
         /\ \A target \in {"running", "done", "failed"} :
              run.status = "waiting_approval" => TimedRun(RunAfterDecision(run, target))
  <1>1. TimedRun(RunAfterClaim(run)) /\ TimedRun(RunAfterSubmission(run))
    BY DEF TimedRun, RunAfterClaim, RunAfterSubmission, Run
  <1>2. ASSUME NEW target \in {"running", "done", "failed"}, run.status = "waiting_approval"
        PROVE  TimedRun(RunAfterDecision(run, target))
    <2> DEFINE row == RunAfterDecision(run, target)
    <2>1. /\ row.status = target
          /\ row.started = IF target = "running" THEN TRUE ELSE run.started
          /\ row.ended = (target \in {"done", "failed"})
      BY Zenon DEF RunAfterDecision, Run
    <2>2. run.started
      BY <1>2 DEF TimedRun
    <2>3. row.started
      BY <2>1, <2>2
    <2> HIDE DEF row
    <2>4. row.status \notin {"absent", "planned"}
      BY <2>1
    <2>5. TimedRun(row)
      BY <2>1, <2>3, <2>4, Zenon DEF TimedRun
    <2> QED
      BY <2>5 DEF row
  <1> QED
    BY <1>1, <1>2

LEMMA TimedTasks ==
  ASSUME NEW task \in Task, TimedTask(task)
  PROVE  /\ task.state \in ClaimableStates => \A r \in Runs, o \in Owners :
              /\ TimedTask(ClaimedTask(task, r, o))
              /\ TimedTask(SubmittedTask(ClaimedTask(task, r, o)))
         /\ TimedTask(ReleasedTask(task))
         /\ \A decision \in Decisions : TimedTask(DecidedTask(task, decision))
  <1>1. task.state \in ClaimableStates => \A r \in Runs, o \in Owners :
          /\ TimedTask(ClaimedTask(task, r, o))
          /\ TimedTask(SubmittedTask(ClaimedTask(task, r, o)))
    BY DEF TimedTask, ClaimedTask, SubmittedTask, Task, ClaimableStates
  <1>2. TimedTask(ReleasedTask(task))
    BY DEF TimedTask, ReleasedTask, Task
  <1>3. ASSUME NEW decision \in Decisions
        PROVE  TimedTask(DecidedTask(task, decision))
    <2>1. /\ DecidedTask(task, decision).state = TargetTaskState(decision)
          /\ DecidedTask(task, decision).completed = (TargetTaskState(decision) = "done")
      BY Zenon DEF DecidedTask, Task
    <2> QED
      BY <2>1, Zenon DEF TimedTask
  <1> QED
    BY <1>1, <1>2, <1>3

LEMMA InitRecords == Init => RecordsTellOneStory
  BY RecordsByRow DEF Init, NoRun, NoTask, NoApproval, DecidedRow, TimedRun, TimedTask,
                      RequestedByOwner

\* What a step does to one approval: nothing, or it is requested by the owner
\* its task has from then on, or handed in again, or decided.
LEMMA ApprovalStep ==
  ASSUME IInv, [Next]_vars, NEW a \in ApprovalIds
  PROVE  \/ approvals'[a] = approvals[a]
         \/ \E t \in Tasks, o \in Owners :
              approvals'[a] = RequestedApproval(t, o) /\ tasks'[t].owner = o
         \/ /\ approvals[a].status = "revision_requested"
            /\ approvals'[a] = ResubmittedApproval(approvals[a])
         \/ /\ approvals[a].status \in UnresolvedStatuses
            /\ \E decision \in Decisions, u \in Users :
                 approvals'[a] = DecidedApproval(approvals[a], decision, u)
  <1> USE DEF IInv, TypeOK
  <1>1. CASE PlanStep \/ ClaimStep \/ ReleaseStep \/ UNCHANGED vars
    BY <1>1 DEF PlanStep, CreateProjectManagerPlan, ClaimStep, ClaimTaskExecution,
                ReleaseStep, ReleaseTaskExecution, vars
  <1>2. CASE SubmitStep
    <2>1. PICK t \in Tasks, r \in Runs, o \in Owners, fresh \in ApprovalIds :
            SubmitTaskOutput(t, r, o, fresh)
      BY <1>2 DEF SubmitStep
    <2>2. tasks'[t].owner = o
      BY <2>1 DEF SubmitTaskOutput, ClaimedTask, SubmittedTask, Task
    <2>3. RecordSubmission(t, o, fresh)
      BY <2>1 DEF SubmitTaskOutput
    <2> QED
      BY <2>2, <2>3 DEF RecordSubmission
  <1>3. CASE DecideStep
    BY <1>3 DEF DecideStep, DecideTaskApproval
  <1> QED
    BY <1>1, <1>2, <1>3 DEF Next

\* What a step does to one run.
LEMMA RunStep ==
  ASSUME IInv, [Next]_vars, NEW q \in Runs
  PROVE  \/ runs'[q] = runs[q]
         \/ runs'[q] = [NoRun EXCEPT !.status = "planned"]
         \/ runs'[q] = RunAfterClaim(runs[q])
         \/ runs'[q] = RunAfterSubmission(runs[q])
         \/ runs'[q] = RunAfterSubmission(RunAfterClaim(runs[q]))
         \/ /\ runs[q].status = "waiting_approval"
            /\ \E target \in {"running", "done", "failed"} :
                 runs'[q] = RunAfterDecision(runs[q], target)
  <1> USE DEF IInv, TypeOK
  <1>1. CASE PlanStep \/ ReleaseStep \/ UNCHANGED vars
    BY <1>1 DEF PlanStep, CreateProjectManagerPlan, ReleaseStep, ReleaseTaskExecution, vars
  <1>2. CASE ClaimStep
    BY <1>2 DEF ClaimStep, ClaimTaskExecution
  <1>3. CASE SubmitStep
    <2>1. PICK t \in Tasks, r \in Runs, o \in Owners, fresh \in ApprovalIds :
            SubmitTaskOutput(t, r, o, fresh)
      BY <1>3 DEF SubmitStep
    <2> DEFINE claimed == [runs EXCEPT ![r] = RunAfterClaim(@)]
    <2>2. runs' = [claimed EXCEPT ![tasks[t].run] = RunAfterSubmission(@)]
      BY <2>1 DEF SubmitTaskOutput
    <2>3. claimed[q] \in {runs[q], RunAfterClaim(runs[q])}
      OBVIOUS
    <2>4. runs'[q] \in {claimed[q], RunAfterSubmission(claimed[q])}
      BY <2>2
    <2> QED
      BY <2>3, <2>4
  <1>4. CASE DecideStep
    <2>1. PICK home \in Runs \cup {None} : MoveRunAfterDecision(home, tasks', approvals')
      BY <1>4 DEF DecideStep, DecideTaskApproval, Approval
    <2> DEFINE target == RunStatusAfterDecision(tasks', home)
    <2>2. target \in {"running", "done", "failed"}
      BY DEF RunStatusAfterDecision
    <2>3. \/ runs' = runs
          \/ /\ runs[home].status = "waiting_approval"
             /\ runs' = [runs EXCEPT ![home] = RunAfterDecision(@, target)]
      BY <2>1, Zenon DEF MoveRunAfterDecision
    <2> HIDE DEF target
    <2> QED
      BY <2>2, <2>3
  <1> QED
    BY <1>1, <1>2, <1>3, <1>4 DEF Next

\* What a step does to one task.
LEMMA TaskStep ==
  ASSUME IInv, [Next]_vars, NEW v \in Tasks
  PROVE  \/ tasks'[v] = tasks[v]
         \/ \E r \in Runs, k \in Roles :
              tasks'[v] = [NoTask EXCEPT !.state = "todo", !.run = r, !.role = k]
         \/ tasks'[v] = ReleasedTask(tasks[v])
         \/ \E r \in Runs, o \in Owners :
              /\ tasks[v].state \in ClaimableStates
              /\ tasks'[v] \in {ClaimedTask(tasks[v], r, o),
                                SubmittedTask(ClaimedTask(tasks[v], r, o))}
         \/ \E decision \in Decisions : tasks'[v] = DecidedTask(tasks[v], decision)
  <1> USE DEF IInv, TypeOK
  <1>1. CASE PlanStep
    BY <1>1 DEF PlanStep, CreateProjectManagerPlan
  <1>2. CASE ClaimStep
    BY <1>2 DEF ClaimStep, ClaimTaskExecution, ClaimAllowed
  <1>3. CASE ReleaseStep
    BY <1>3 DEF ReleaseStep, ReleaseTaskExecution
  <1>4. CASE SubmitStep
    <2>1. PICK t \in Tasks, r \in Runs, o \in Owners, fresh \in ApprovalIds :
            SubmitTaskOutput(t, r, o, fresh)
      BY <1>4 DEF SubmitStep
    <2>2. /\ tasks[t].state \in ClaimableStates
          /\ tasks' = [tasks EXCEPT ![t] = SubmittedTask(ClaimedTask(@, r, o))]
      BY <2>1 DEF SubmitTaskOutput, ClaimAllowed
    <2> QED
      BY <2>2
  <1>5. CASE DecideStep
    BY <1>5 DEF DecideStep, DecideTaskApproval
  <1>6. CASE UNCHANGED vars
    BY <1>6 DEF vars
  <1> QED
    BY <1>1, <1>2, <1>3, <1>4, <1>5, <1>6 DEF Next

LEMMA NextRequester ==
  ASSUME IInv, LockConsistent, RequestedByOwner, [Next]_vars
  PROVE  RequestedByOwner'
  <1> SUFFICES ASSUME NEW a \in ApprovalIds, NEW v \in Tasks,
                      approvals'[a].status # "absent", approvals'[a].task = v
               PROVE  approvals'[a].requestedBy = tasks'[v].owner
    BY DEF RequestedByOwner
  <1>1. CASE \E t \in Tasks, o \in Owners :
               approvals'[a] = RequestedApproval(t, o) /\ tasks'[t].owner = o
    BY <1>1 DEF RequestedApproval, NoApproval
  <1>2. CASE /\ approvals[a].status # "absent"
             /\ approvals'[a].task = approvals[a].task
             /\ approvals'[a].requestedBy = approvals[a].requestedBy
    <2>1. approvals[a].requestedBy = tasks[v].owner
      BY <1>2 DEF RequestedByOwner
    <2>2. tasks[v].state = StateUnderReview(approvals[a].status)
      BY <1>2, ApprovalOfTask
    <2>3. tasks[v].checkout # None
      BY <2>2 DEF LockConsistent, StateUnderReview, TargetTaskState
    <2> QED
      BY <1>2, <2>1, <2>3, OwnershipStep DEF IInv
  <1>3. approvals[a] \in Approval
    BY DEF IInv, TypeOK
  <1>4. CASE /\ approvals[a].status = "revision_requested"
             /\ approvals'[a] = ResubmittedApproval(approvals[a])
    BY <1>2, <1>3, <1>4 DEF ResubmittedApproval, Approval
  <1>5. ASSUME NEW decision \in Decisions, NEW u \in Users,
               approvals[a].status \in UnresolvedStatuses,
               approvals'[a] = DecidedApproval(approvals[a], decision, u)
        PROVE  approvals'[a].requestedBy = tasks'[v].owner
    BY <1>2, <1>3, <1>5 DEF DecidedApproval, Approval, UnresolvedStatuses
  <1>6. CASE approvals'[a] = approvals[a]
    BY <1>2, <1>6
  <1> QED
    BY <1>1, <1>4, <1>5, <1>6, ApprovalStep

LEMMA NextRecords ==
  ASSUME IInv, LockConsistent, RecordsTellOneStory, [Next]_vars
  PROVE  RecordsTellOneStory'
  <1>1. /\ \A a \in ApprovalIds : approvals[a] \in Approval /\ DecidedRow(approvals[a])
        /\ \A r \in Runs : runs[r] \in Run /\ TimedRun(runs[r])
        /\ \A t \in Tasks : tasks[t] \in Task /\ TimedTask(tasks[t])
        /\ RequestedByOwner
    BY RecordsByRow DEF IInv, TypeOK
  <1>2. ASSUME NEW a \in ApprovalIds
        PROVE  DecidedRow(approvals'[a])
    BY <1>1, ApprovalStep, DecidedRows
  <1>3. ASSUME NEW q \in Runs
        PROVE  TimedRun(runs'[q])
    <2>1. TimedRun([NoRun EXCEPT !.status = "planned"])
      BY DEF TimedRun, NoRun
    <2>2. RunAfterClaim(runs[q]) \in Run /\ TimedRun(RunAfterClaim(runs[q]))
      BY <1>1, RunRows, TimedRuns DEF RunStatuses
    <2>3. TimedRun(RunAfterSubmission(RunAfterClaim(runs[q])))
      BY <2>2, TimedRuns
    <2> QED
      BY <1>1, <2>1, <2>2, <2>3, RunStep, TimedRuns
  <1>4. ASSUME NEW v \in Tasks
        PROVE  TimedTask(tasks'[v])
    <2>1. \A r \in Runs, k \in Roles :
            TimedTask([NoTask EXCEPT !.state = "todo", !.run = r, !.role = k])
      BY DEF TimedTask, NoTask
    <2>2. ASSUME NEW r \in Runs, NEW o \in Owners, tasks[v].state \in ClaimableStates,
                 tasks'[v] \in {ClaimedTask(tasks[v], r, o),
                                SubmittedTask(ClaimedTask(tasks[v], r, o))}
          PROVE  TimedTask(tasks'[v])
      BY <1>1, <2>2, TimedTasks
    <2>3. TimedTask(ReleasedTask(tasks[v]))
          /\ \A decision \in Decisions : TimedTask(DecidedTask(tasks[v], decision))
      BY <1>1, TimedTasks
    <2> QED
      BY <1>1, <2>1, <2>2, <2>3, TaskStep, Zenon
  <1>5. RequestedByOwner'
    BY <1>1, NextRequester
  <1> QED
    BY <1>2, <1>3, <1>4, <1>5, Zenon
       DEF RecordsTellOneStory, DecisionRecordConsistent, TimestampsAgree, DecidedRow,
           TimedRun, TimedTask, RequestedByOwner

\* Through any sequence of claims, releases, submissions, revisions and
\* decisions an approval carries a decider exactly while it is resolved and a
\* revision flag whenever it was handed back, was requested by the owner of its
\* task, and the timestamps of runs and tasks follow their states.
THEOREM RecordsStayTrue == Spec => []RecordsTellOneStory
  <1>1. IInv /\ LockConsistent /\ RecordsTellOneStory /\ [Next]_vars => RecordsTellOneStory'
    BY NextRecords
  <1> QED
    BY <1>1, InitRecords, Invariance, LocksAreConsistent, PTL DEF Spec

-----------------------------------------------------------------------------
(* Every task is a lock of TaskLock: each step maps to a step or a stutter *)
(* of every task's lock.                                                   *)

LEMMA PhaseFacts ==
  /\ \A state : state \in {"absent", "todo", "in_progress"} => PhaseOf(state) = "open"
  /\ PhaseOf("waiting_approval") = "review"
  /\ \A state : state \in {"done", "blocked"} => PhaseOf(state) = "settled"
  BY DEF PhaseOf

LEMMA LockInitStep ==
  ASSUME Init, NEW t \in Tasks
  PROVE  LockOf(t)!Init
  BY DEF Init, NoTask, PhaseOf, LockOf!Init

\* A task whose row does not change, or is only planned, keeps its lock.
LEMMA LockUntouched ==
  ASSUME NEW t \in Tasks,
         PhaseOf(tasks'[t].state) = PhaseOf(tasks[t].state),
         tasks'[t].checkout = tasks[t].checkout,
         tasks'[t].owner = tasks[t].owner,
         tasks'[t].execution = tasks[t].execution
  PROVE  UNCHANGED LockOf(t)!vars
  BY DEF LockOf!vars

LEMMA LockStep ==
  ASSUME TypeOK, LockConsistent, [Next]_vars, NEW v \in Tasks
  PROVE  LockOf(v)!Next \/ UNCHANGED LockOf(v)!vars
  <1>1. CASE tasks'[v] = tasks[v]
    BY <1>1, LockUntouched
  <1>2. CASE PlanStep
    <2>1. tasks'[v] = tasks[v] \/ (tasks[v].state = "absent" /\ \E r \in Runs, k \in Roles :
            tasks'[v] = [NoTask EXCEPT !.state = "todo", !.run = r, !.role = k])
      BY <1>2 DEF PlanStep, CreateProjectManagerPlan
    <2>2. ASSUME NEW r \in Runs, NEW k \in Roles, tasks[v].state = "absent",
                 tasks'[v] = [NoTask EXCEPT !.state = "todo", !.run = r, !.role = k]
          PROVE  UNCHANGED LockOf(v)!vars
      <3>1. /\ tasks'[v].state = "todo" /\ tasks'[v].checkout = None
            /\ tasks'[v].owner = None /\ tasks'[v].execution = None
        BY <2>2 DEF NoTask
      <3>2. /\ tasks[v].checkout = None /\ tasks[v].owner = None
            /\ tasks[v].execution = None
        BY <2>2 DEF LockConsistent, TypeOK, Task
      <3> QED
        BY <2>2, <3>1, <3>2, LockUntouched, PhaseFacts
    <2> QED
      BY <1>1, <2>1, <2>2
  <1>3. CASE ClaimStep
    <2>1. PICK t \in Tasks, r \in Runs, o \in Owners : ClaimTaskExecution(t, r, o)
      BY <1>3 DEF ClaimStep
    <2>2. CASE v = t
      <3>1. /\ <<r, o>> \in Holders
            /\ tasks[v].state \in {"todo", "in_progress"}
            /\ tasks[v].checkout \in {None, r}
            /\ tasks[v].owner \in {None, o}
        BY <2>1, <2>2 DEF ClaimTaskExecution, ClaimAllowed, ClaimableStates,
                          NoClaimConflict, Holders
      <3>2. /\ tasks'[v].state = "in_progress" /\ tasks'[v].checkout = r
            /\ tasks'[v].owner = o /\ tasks'[v].execution = r
        BY <2>1, <2>2 DEF ClaimTaskExecution, ClaimedTask, TypeOK, Task
      <3>3. r # None
        BY ConstantsAssumption
      <3>4. LockOf(v)!Acquire(<<r, o>>)
        BY <3>1, <3>2, <3>3, PhaseFacts DEF LockOf!Acquire, LockConsistent
      <3> QED
        BY <3>1, <3>4 DEF LockOf!Next
    <2>3. CASE v # t
      BY <1>1, <2>1, <2>3 DEF ClaimTaskExecution, TypeOK
    <2> QED
      BY <2>2, <2>3
  <1>4. CASE ReleaseStep
    <2>1. PICK t \in Tasks, r \in Runs, o \in Owners : ReleaseTaskExecution(t, r, o)
      BY <1>4 DEF ReleaseStep
    <2>2. CASE v = t
      <3>1. /\ <<r, o>> \in Holders
            /\ tasks[v].checkout \in {None, r}
            /\ tasks[v].owner \in {None, o}
        BY <2>1, <2>2 DEF ReleaseTaskExecution, NoClaimConflict, Holders
      <3>2. /\ tasks'[v].state = tasks[v].state
            /\ tasks'[v].checkout = tasks[v].checkout
            /\ tasks'[v].owner = tasks[v].owner
            /\ tasks'[v].execution = None
        BY <2>1, <2>2 DEF ReleaseTaskExecution, ReleasedTask, TypeOK, Task
      <3>3. CASE tasks[v].checkout = None
        BY <3>2, <3>3, LockUntouched DEF LockConsistent
      <3>4. CASE tasks[v].checkout # None
        <4>1. LockOf(v)!Pause(<<r, o>>)
          BY <3>1, <3>2, <3>4 DEF LockOf!Pause, LockConsistent
        <4> QED
          BY <3>1, <4>1 DEF LockOf!Next
      <3> QED
        BY <3>3, <3>4
    <2>3. CASE v # t
      BY <1>1, <2>1, <2>3 DEF ReleaseTaskExecution, TypeOK
    <2> QED
      BY <2>2, <2>3
  <1>5. CASE SubmitStep
    <2>1. PICK t \in Tasks, r \in Runs, o \in Owners, fresh \in ApprovalIds :
            SubmitTaskOutput(t, r, o, fresh)
      BY <1>5 DEF SubmitStep
    <2>2. CASE v = t
      <3>1. /\ <<r, o>> \in Holders
            /\ tasks[v].state \in {"todo", "in_progress"}
            /\ tasks[v].checkout \in {None, r}
            /\ tasks[v].owner \in {None, o}
        BY <2>1, <2>2 DEF SubmitTaskOutput, ClaimAllowed, ClaimableStates,
                          NoClaimConflict, Holders
      <3>2. /\ tasks'[v].state = "waiting_approval" /\ tasks'[v].checkout = r
            /\ tasks'[v].owner = o /\ tasks'[v].execution = None
        BY <2>1, <2>2 DEF SubmitTaskOutput, ClaimedTask, SubmittedTask, TypeOK, Task
      <3>3. r # None
        BY ConstantsAssumption
      <3>4. LockOf(v)!HandIn(<<r, o>>)
        BY <3>1, <3>2, <3>3, PhaseFacts DEF LockOf!HandIn, LockConsistent
      <3> QED
        BY <3>1, <3>4 DEF LockOf!Next
    <2>3. CASE v # t
      BY <1>1, <2>1, <2>3 DEF SubmitTaskOutput, TypeOK
    <2> QED
      BY <2>2, <2>3
  <1>6. CASE DecideStep
    <2>1. PICK t \in Tasks, decision \in Decisions, u \in Users :
            DecideTaskApproval(t, decision, u)
      BY <1>6 DEF DecideStep
    <2>2. CASE v = t
      <3>1. /\ tasks[v].state = "waiting_approval"
            /\ tasks'[v].state \in {"done", "in_progress", "blocked"}
            /\ tasks'[v].checkout = tasks[v].checkout
            /\ tasks'[v].owner = tasks[v].owner
            /\ tasks'[v].execution = tasks[v].execution
        BY <2>1, <2>2 DEF DecideTaskApproval, DecidedTask, TargetTaskState, TypeOK, Task
      <3>2. LockOf(v)!Review
        BY <3>1, PhaseFacts DEF LockOf!Review
      <3> QED
        BY <3>2 DEF LockOf!Next
    <2>3. CASE v # t
      BY <1>1, <2>1, <2>3 DEF DecideTaskApproval, TypeOK
    <2> QED
      BY <2>2, <2>3
  <1>7. CASE UNCHANGED vars
    BY <1>1, <1>7 DEF vars
  <1> QED
    BY <1>2, <1>3, <1>4, <1>5, <1>6, <1>7 DEF Next

\* Refinement: seen from any one task, the whole workflow implements the lock
\* that TaskLock specifies.
THEOREM WorkflowImplementsLocks == Spec => EachTaskIsALock
  <1>1. Init => \A t \in Tasks : LockOf(t)!Init
    BY LockInitStep
  <1>2. TypeOK /\ LockConsistent /\ [Next]_vars =>
          [\A t \in Tasks : LockOf(t)!Next \/ UNCHANGED LockOf(t)!vars]_vars
    BY LockStep
  <1> QED
    BY <1>1, <1>2, TypeCorrect, LocksAreConsistent, PTL DEF Spec, EachTaskIsALock

=============================================================================
