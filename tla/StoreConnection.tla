--------------------------- MODULE StoreConnection ---------------------------
(***************************************************************************)
(* The one SQLite connection all requests of a runtime share               *)
(* (apps/web/src/persistence.ts).  TaskWorkflow takes an operation of the  *)
(* store for one step; here an operation runs from await to await, with    *)
(* its transaction open in between, and other operations run statements on *)
(* the same connection meanwhile.                                          *)
(*                                                                         *)
(* Claim, submission and decision open a transaction and await inside it.  *)
(* Release opens none: its statements join the transaction that happens to *)
(* be open.  A plan opens one and closes it without awaiting.  A BEGIN     *)
(* inside an open transaction is an error.                                 *)
(*                                                                         *)
(* runs, tasks and approvals are what a statement on the connection sees,  *)
(* uncommitted changes included.  A call that is refused before its first  *)
(* await has undone whatever it began, and leaves no step.                 *)
(*                                                                         *)
(* Other operations can change little while a transaction is open: only a  *)
(* release runs then, and a release writes nothing but the execution lock. *)
(* Awaits that only such a write could reach, and to no effect, are left   *)
(* out: those inside the guarded transitions of a decision.  Messages and  *)
(* configuration are written to other tables, without an await.            *)
(***************************************************************************)

CONSTANTS Callers, Runs, Tasks, ApprovalIds, Roles, Users, None

ASSUME CallersAssumption == None \notin Callers

ASSUME ConstantsAssumption ==
  /\ None \notin Runs \cup Tasks \cup Roles \cup Users
  /\ Roles \cap Users = {} /\ Roles \cap Runs = {} /\ Users \cap Runs = {}

VARIABLES
  runs, tasks, approvals,  \* the tables, as seen on the connection
  saved,                   \* the tables as last committed
  tx,                      \* the caller whose transaction is open, or None
  calls                    \* calls[p]: the call p is making, or made last

vars == <<runs, tasks, approvals, saved, tx, calls>>

Workflow == INSTANCE TaskWorkflow

Committed == INSTANCE TaskWorkflow
  WITH runs <- saved.runs, tasks <- saved.tasks, approvals <- saved.approvals

Visible == [runs |-> runs, tasks |-> tasks, approvals |-> approvals]

Ended == {"ok", "refused", "busy"}

Call ==
  [pc : {"read", "swapped", "lost", "failed", "decided", "moved"} \cup Ended,
   kind : {"claim", "release", "submit", "decide", "none"},
   task : Tasks \cup {None}, run : Runs \cup {None},
   owner : Workflow!Owners \cup {None},
   decision : Workflow!Decisions \cup {None},
   current : Workflow!Task]

EndedCall(outcome) ==
  [pc |-> outcome, kind |-> "none", task |-> None, run |-> None, owner |-> None,
   decision |-> None, current |-> Workflow!NoTask]

\* The tables as call p has read them: its task's row may be out of date.
Seen(p) == INSTANCE TaskWorkflow
  WITH tasks <- [tasks EXCEPT ![calls[p].task] = calls[p].current]

-----------------------------------------------------------------------------
(* Transactions.                                                           *)

\* What a statement changes is committed at once unless a transaction is open;
\* COMMIT saves what is seen.
Autocommit == saved' = IF tx' = None THEN Visible' ELSE saved

End(p, outcome) == calls' = [calls EXCEPT ![p] = EndedCall(outcome)]

Move(p, pc) == calls' = [calls EXCEPT ![p].pc = pc]

\* Mutant: the call is answered with its transaction open.
AnswerOnly(p) == tx' = tx /\ End(p, "ok")

Commit(p) == tx' = None /\ End(p, "ok")

Rollback(p) ==
  /\ runs' = saved.runs
  /\ tasks' = saved.tasks
  /\ approvals' = saved.approvals
  /\ tx' = None
  /\ End(p, "refused")

\* Mutants: a nested BEGIN joins the open transaction; the error handler rolls
\* back whether or not its own BEGIN went through.
JoinTransaction(p, call) == tx' = p /\ calls' = [calls EXCEPT ![p] = call]

RollbackAnyway(p, call) ==
  IF tx = None THEN tx' = p /\ calls' = [calls EXCEPT ![p] = call]
  ELSE tx' = None /\ End(p, "busy")

\* BEGIN IMMEDIATE, after which the call waits as given; or the error that a
\* transaction is open already, which leaves that transaction alone.
BeginTransaction(p, call) ==
  IF tx = None THEN tx' = p /\ calls' = [calls EXCEPT ![p] = call]
  ELSE tx' = tx /\ End(p, "busy")

-----------------------------------------------------------------------------

Init ==
  /\ Workflow!Init
  /\ saved = Visible
  /\ tx = None
  /\ calls = [p \in Callers |-> EndedCall("refused")]

\* The planner runs from BEGIN to COMMIT without an await.
Plan ==
  /\ tx = None
  /\ Workflow!PlanStep
  /\ UNCHANGED <<tx, calls>>
  /\ Autocommit

ReadCall(kind, t, r, o) ==
  [EndedCall("read") EXCEPT !.kind = kind, !.task = t, !.run = r, !.owner = o,
                            !.current = tasks[t]]

\* Bound: a first submission begins only while an id for its approval is left.
ApprovalIdLeft(t) ==
  Workflow!ApprovalsOf(t) # {} \/ \E a \in ApprovalIds : approvals[a].status = "absent"

\* A claim, or a submission of a task that has to be claimed on the way: BEGIN,
\* then the claim service reads the row and awaits.
BeginClaim(p, kind, t, r, o) ==
  /\ calls[p].pc \in Ended
  /\ tasks[t].state # "absent"
  /\ runs[r].status # "absent"
  /\ kind = "submit" => tasks[t].state \in Workflow!ClaimableStates /\ ApprovalIdLeft(t)
  /\ Workflow!OwnerIdentityOk(r, o)
  /\ Workflow!AgentMatchesAssignment(t, o)
  /\ BeginTransaction(p, ReadCall(kind, t, r, o))
  /\ UNCHANGED <<runs, tasks, approvals>>
  /\ Autocommit

\* A release: the claim service reads the row, in whatever transaction is open.
BeginRelease(p, t, r, o) ==
  /\ calls[p].pc \in Ended
  /\ tasks[t].state # "absent"
  /\ Workflow!OwnerIdentityOk(r, o)
  /\ calls' = [calls EXCEPT ![p] = ReadCall("release", t, r, o)]
  /\ UNCHANGED <<runs, tasks, approvals, tx>>
  /\ Autocommit

Refuses(p) ==
  LET c == calls[p]
  IN \/ c.kind # "release" /\ c.current.state \notin Workflow!ClaimableStates
     \/ ~Seen(p)!NoClaimConflict(c.task, c.run, c.owner)

Wanted(c) ==
  IF c.kind = "release" THEN Workflow!ReleasedTask(c.current)
  ELSE Workflow!ClaimedTask(c.current, c.run, c.owner)

\* A rejection reaches the operation's own error handler one await later; a
\* release has nothing to roll back.
Fail(p) == IF tx = p THEN Move(p, "failed") ELSE End(p, "refused")

Refuse(p) ==
  /\ calls[p].pc = "read"
  /\ Refuses(p)
  /\ Fail(p)
  /\ UNCHANGED <<runs, tasks, approvals, tx>>
  /\ Autocommit

\* The claim service's compare-and-swap, if there is anything to change.
Swap(p) ==
  LET c == calls[p]
  IN /\ c.pc = "read"
     /\ ~Refuses(p)
     /\ \/ /\ Wanted(c) = c.current \/ tasks[c.task] = c.current
           /\ tasks' = IF Wanted(c) = c.current THEN tasks
                       ELSE [tasks EXCEPT ![c.task] = Wanted(c)]
           /\ Move(p, "swapped")
        \/ /\ Wanted(c) # c.current /\ tasks[c.task] # c.current
           /\ Move(p, "lost")
           /\ UNCHANGED tasks
     /\ UNCHANGED <<runs, approvals, tx>>
     /\ Autocommit

\* A lost swap is retried on a fresh read, or it was the last attempt (how
\* attempts are counted is the subject of TaskClaim).
Reread(p) ==
  LET c == calls[p]
      again == [c EXCEPT !.current = tasks[c.task], !.pc = "read"]
  IN /\ c.pc = "lost"
     /\ IF tasks[c.task] = Wanted(c) THEN Move(p, "swapped")
        ELSE \/ calls' = [calls EXCEPT ![p] = again]
             \/ Wanted(again) # again.current /\ Fail(p)
     /\ UNCHANGED <<runs, tasks, approvals, tx>>
     /\ Autocommit

FinishRelease(p) ==
  /\ calls[p].pc = "swapped"
  /\ calls[p].kind = "release"
  /\ End(p, "ok")
  /\ UNCHANGED <<runs, tasks, approvals, tx>>
  /\ Autocommit

RunMayStart(r) == runs[r].status \in {"planned", "running"}

\* Mutant: a claim refused by its run is answered with its transaction open.
StartOrAnswer(p) ==
  LET c == calls[p]
  IN /\ c.pc = "swapped"
     /\ c.kind = "claim"
     /\ IF RunMayStart(c.run)
        THEN runs' = [runs EXCEPT ![c.run] = Workflow!RunAfterClaim(@)] /\ Commit(p)
        ELSE UNCHANGED <<runs, tx>> /\ End(p, "refused")
     /\ UNCHANGED <<tasks, approvals>>
     /\ Autocommit

\* The run starts and the claim is committed, or all is undone.
FinishClaim(p) ==
  LET c == calls[p]
  IN /\ c.pc = "swapped"
     /\ c.kind = "claim"
     /\ IF RunMayStart(c.run)
        THEN /\ runs' = [runs EXCEPT ![c.run] = Workflow!RunAfterClaim(@)]
             /\ Commit(p)
             /\ UNCHANGED <<tasks, approvals>>
        ELSE Rollback(p)
     /\ Autocommit

\* The row is read again after the claim: a release may have come between.
SubmissionAllowed(c) ==
  /\ tasks[c.task].state = "in_progress"
  /\ tasks[c.task].execution = c.run
  /\ tasks[c.task].owner = c.owner

\* The output of a claimed task: no await between here and COMMIT.
FinishSubmit(p) ==
  LET c == calls[p]
      home == tasks[c.task].run
      claimed == [runs EXCEPT ![c.run] = Workflow!RunAfterClaim(@)]
  IN /\ c.pc = "swapped"
     /\ c.kind = "submit"
     /\ IF /\ RunMayStart(c.run)
           /\ SubmissionAllowed(c)
           /\ \A a \in Workflow!ApprovalsOf(c.task) : approvals[a].status = "revision_requested"
           /\ Workflow!CanTransitionRun(claimed[home].status, "waiting_approval")
        THEN /\ \E fresh \in ApprovalIds : Workflow!RecordSubmission(c.task, c.owner, fresh)
             /\ tasks' = [tasks EXCEPT ![c.task] = Workflow!SubmittedTask(@)]
             /\ runs' = [claimed EXCEPT ![home] = Workflow!RunAfterSubmission(@)]
             /\ Commit(p)
        ELSE Rollback(p)
     /\ Autocommit

\* A decision: BEGIN, the approval is updated, the guarded transition reads the
\* task and awaits.
BeginDecide(p, t, decision, u) ==
  /\ calls[p].pc \in Ended
  /\ tasks[t].state = "waiting_approval"
  /\ \E a \in ApprovalIds :
       /\ Workflow!ApprovalsOf(t) = {a}
       /\ approvals[a].status \in Workflow!UnresolvedStatuses
       /\ approvals' = IF tx = None
                       THEN [approvals EXCEPT ![a] = Workflow!DecidedApproval(@, decision, u)]
                       ELSE approvals
  /\ BeginTransaction(p, [EndedCall("decided") EXCEPT !.kind = "decide", !.task = t,
                                                     !.decision = decision])
  /\ UNCHANGED <<runs, tasks>>
  /\ Autocommit

\* The guarded transition of the task.
MoveTask(p) ==
  LET c == calls[p]
  IN /\ c.pc = "decided"
     /\ IF /\ tasks[c.task].state = "waiting_approval"
           /\ Workflow!BlockingTask(approvals, c.task) = {}
        THEN /\ tasks' = [tasks EXCEPT ![c.task] = Workflow!DecidedTask(@, c.decision)]
             /\ Move(p, "moved")
        ELSE UNCHANGED tasks /\ Fail(p)
     /\ UNCHANGED <<runs, approvals, tx>>
     /\ Autocommit

\* The guarded transition of the run, then COMMIT.
FinishDecide(p) ==
  /\ calls[p].pc = "moved"
  /\ \E a \in Workflow!ApprovalsOf(calls[p].task) :
       Workflow!MoveRunAfterDecision(approvals[a].run, tasks, approvals)
  /\ Commit(p)
  /\ UNCHANGED <<tasks, approvals>>
  /\ Autocommit

\* Mutant: the error is passed on without ROLLBACK.
PassOn(p) ==
  /\ calls[p].pc = "failed"
  /\ End(p, "refused")
  /\ UNCHANGED <<runs, tasks, approvals, tx>>
  /\ Autocommit

\* The operation's error handler.
HandleFailure(p) ==
  /\ calls[p].pc = "failed"
  /\ Rollback(p)
  /\ Autocommit

Step(p) ==
  \/ Refuse(p) \/ Swap(p) \/ Reread(p)
  \/ FinishRelease(p) \/ FinishClaim(p) \/ FinishSubmit(p)
  \/ MoveTask(p) \/ FinishDecide(p) \/ HandleFailure(p)

Next ==
  \/ Plan
  \/ \E p \in Callers : Step(p)
  \/ \E p \in Callers, kind \in {"claim", "submit"}, t \in Tasks, r \in Runs,
        o \in Workflow!Owners : BeginClaim(p, kind, t, r, o)
  \/ \E p \in Callers, t \in Tasks, r \in Runs, o \in Workflow!Owners :
       BeginRelease(p, t, r, o)
  \/ \E p \in Callers, t \in Tasks, decision \in Workflow!Decisions, u \in Users :
       BeginDecide(p, t, decision, u)

Spec == Init /\ [][Next]_vars

\* A suspended operation is resumed: what it awaits is settled already.
Fairness == \A p \in Callers : WF_vars(Step(p))

FairSpec == Spec /\ Fairness

-----------------------------------------------------------------------------
(* Properties.                                                             *)

\* Tables, committed tables and calls hold values of their types, and only a
\* call under way has a transaction open.
TypeOK ==
  /\ Workflow!TypeOK
  /\ Committed!TypeOK
  /\ tx \in Callers \cup {None}
  /\ calls \in [Callers -> Call]
  /\ \A p \in Callers : tx = p => calls[p].pc \notin Ended

\* What is committed is always the outcome of whole operations: the tables agree
\* as TaskWorkflow says, whatever ran inside whose transaction and was undone.
CommittedTablesAgree ==
  /\ Committed!ApprovalAgreesWithTask
  /\ Committed!RunWaitsForItsApprovals
  /\ Committed!RunOutcomeFollowsTasks
  /\ Committed!LockConsistent

\* From one commit to the next nothing happens that the workflow forbids: no
\* checkout changes hands, nothing settled is rewritten, the gate is kept.
CommittedStepsAreLegal ==
  /\ Committed!OwnershipIsPermanent
  /\ Committed!SettledStaysSettled
  /\ Committed!GateNeverBypassed

\* A claim, submission or decision that is answered with success has been
\* committed.  A release is not among them: inside the transaction of another
\* call it is answered before that call commits, or rolls back.
AcknowledgedIsCommitted ==
  [][\A p \in Callers : calls[p].pc \notin Ended /\ calls'[p].pc = "ok" =>
       LET c == calls[p]
           task == saved'.tasks[c.task]
       IN /\ c.kind = "claim" =>
               task.state = "in_progress" /\ task.checkout = c.run /\ task.owner = c.owner
          /\ c.kind = "submit" =>
               task.state = "waiting_approval" /\ task.checkout = c.run /\ task.owner = c.owner
          /\ c.kind = "decide" => task.state = Workflow!TargetTaskState(c.decision)]_vars

\* No transaction stays open: however the calls are refused, the connection is
\* free again.
TransactionsEnd == tx # None ~> tx = None

\* Competing ownership attempts get an answer of the claim service: granted, or
\* refused with a conflict code, not the failure of a nested BEGIN.
CompetingClaimsGetConflictCodes ==
  [][\A p, q \in Callers, t \in Tasks, r \in Runs, o \in Workflow!Owners :
       /\ BeginClaim(p, "claim", t, r, o)
       /\ calls[q].kind = "claim"
       /\ calls[q].task = t
       => calls'[p].pc # "busy"]_vars

=============================================================================
