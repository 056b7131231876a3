----------------------- MODULE StoreConnection_proofs -----------------------
(* Theorems about StoreConnection for any number of callers, runs, tasks   *)
(* and approvals, however their calls overlap on the one connection.       *)
EXTENDS StoreConnection, TLAPS

-----------------------------------------------------------------------------
(* The inductive invariant.  What an open transaction has written is seen  *)
(* on the connection before it is committed, and a decision passes through *)
(* tables in which the approval is decided and the task still waits.  The  *)
(* base is what the workflow's invariants hold of throughout: the tables as *)
(* they are seen, but for the approval and the task of a decision under     *)
(* way, which are as last committed, as are the runs.  Claims and releases  *)
(* are small steps of the base; a plan, and the last step of a submission   *)
(* or a decision, are whole steps of TaskWorkflow on it.                    *)

UnderDecision(t) == tx # None /\ calls[tx].kind = "decide" /\ calls[tx].task = t

BaseTasks == [t \in Tasks |-> IF UnderDecision(t) THEN saved.tasks[t] ELSE tasks[t]]

Saved == INSTANCE TaskWorkflow_proofs
  WITH runs <- saved.runs, tasks <- saved.tasks, approvals <- saved.approvals

Base == INSTANCE TaskWorkflow_proofs
  WITH runs <- saved.runs, tasks <- BaseTasks, approvals <- saved.approvals

SavedOk == Saved!IInv /\ Saved!LockConsistent

BaseOk == Base!IInv /\ Base!LockConsistent

\* What of a task no transaction takes back or hands on.
Kept(old, new) ==
  /\ old.checkout # None => new.checkout = old.checkout /\ new.owner = old.owner
  /\ old.state = "waiting_approval" => new.state = "waiting_approval"
  /\ old.state \in {"done", "blocked"} => new = old

TransactionOk ==
  /\ tx = None => saved = Visible
  /\ tx # None => runs = saved.runs /\ (calls[tx].kind # "decide" => approvals = saved.approvals)
  /\ \A t \in Tasks : Kept(saved.tasks[t], BaseTasks[t])

\* A row that has at most been released.
SameButExecution(old, new) ==
  /\ new.state = old.state /\ new.run = old.run /\ new.role = old.role
  /\ new.owner = old.owner /\ new.checkout = old.checkout /\ new.completed = old.completed

\* A claim, or a submission with the claim it begins with.
ClaimOk(c) ==
  /\ c.pc \in {"read", "lost", "swapped"} =>
       c.run \in Runs /\ c.owner \in Workflow!Owners /\ Workflow!OwnerIdentityOk(c.run, c.owner)
  /\ c.pc \in {"read", "lost"} =>
       /\ c.owner \in Roles => c.owner = tasks[c.task].role
       /\ SameButExecution(c.current, tasks[c.task])
  /\ c.pc = "swapped" =>
       /\ tasks[c.task].state = "in_progress"
       /\ tasks[c.task].checkout = c.run /\ tasks[c.task].owner = c.owner

\* A decision whose approval is updated and whose task and run follow.
DecisionOk(c) ==
  c.pc \in {"decided", "moved"} =>
    /\ c.decision \in Workflow!Decisions
    /\ saved.tasks[c.task].state = "waiting_approval"
    /\ tasks[c.task] = IF c.pc = "decided" THEN saved.tasks[c.task]
                       ELSE Workflow!DecidedTask(saved.tasks[c.task], c.decision)
    /\ \E a \in ApprovalIds, u \in Users :
         /\ {b \in ApprovalIds : saved.approvals[b].task = c.task} = {a}
         /\ saved.approvals[a].status \in Workflow!UnresolvedStatuses
         /\ approvals = [saved.approvals EXCEPT ![a] = Workflow!DecidedApproval(@, c.decision, u)]

\* Whoever is under way with anything but a release has the transaction.
CallOk(p) ==
  calls[p].pc \notin Ended =>
    /\ calls[p].task \in Tasks
    /\ calls[p].kind # "none"
    /\ calls[p].kind # "release" <=> tx = p
    /\ calls[p].pc \in {"decided", "moved"} => calls[p].kind = "decide"
    /\ calls[p].pc \in {"read", "lost", "swapped"} => calls[p].kind # "decide"
    /\ calls[p].pc = "failed" => calls[p].kind # "release"
    /\ calls[p].kind \in {"claim", "submit"} => ClaimOk(calls[p])
    /\ calls[p].kind = "decide" => DecisionOk(calls[p])

IInv == TypeOK /\ SavedOk /\ BaseOk /\ TransactionOk /\ \A p \in Callers : CallOk(p)

-----------------------------------------------------------------------------
(* The two instances and the connection speak of the same rows.            *)

LEMMA SameRows ==
  /\ Base!Task = Workflow!Task /\ Saved!Task = Workflow!Task
  /\ Base!Run = Workflow!Run /\ Saved!Run = Workflow!Run
  /\ Base!Approval = Workflow!Approval /\ Saved!Approval = Workflow!Approval
  /\ Base!Owners = Workflow!Owners /\ Base!Decisions = Workflow!Decisions
  /\ Committed!Task = Workflow!Task /\ Committed!Run = Workflow!Run
  /\ Committed!Approval = Workflow!Approval
  BY DEF Base!Task, Workflow!Task, Saved!Task, Base!Run, Workflow!Run, Saved!Run,
         Base!Approval, Workflow!Approval, Saved!Approval, Base!Owners, Workflow!Owners,
         Saved!Owners, Base!Decisions, Workflow!Decisions, Base!TaskStates,
         Workflow!TaskStates, Saved!TaskStates, Base!RunStatuses, Workflow!RunStatuses,
         Saved!RunStatuses, Base!ApprovalStatuses, Workflow!ApprovalStatuses,
         Saved!ApprovalStatuses, Committed!Task, Committed!Run, Committed!Approval,
         Committed!Owners, Committed!TaskStates, Committed!RunStatuses,
         Committed!ApprovalStatuses

LEMMA Types ==
  ASSUME TypeOK
  PROVE  /\ runs \in [Runs -> Workflow!Run] /\ saved.runs \in [Runs -> Workflow!Run]
         /\ tasks \in [Tasks -> Workflow!Task] /\ saved.tasks \in [Tasks -> Workflow!Task]
         /\ approvals \in [ApprovalIds -> Workflow!Approval]
         /\ saved.approvals \in [ApprovalIds -> Workflow!Approval]
         /\ BaseTasks \in [Tasks -> Workflow!Task]
         /\ tx \in Callers \cup {None} /\ calls \in [Callers -> Call]
  BY SameRows DEF TypeOK, Workflow!TypeOK, Committed!TypeOK, BaseTasks

\* What rows become.
LEMMA Rows ==
  ASSUME NEW task \in Workflow!Task
  PROVE  /\ Workflow!ReleasedTask(task) \in Workflow!Task
         /\ SameButExecution(task, Workflow!ReleasedTask(task))
         /\ Workflow!ReleasedTask(task).execution = None
         /\ \A r \in Runs, o \in Workflow!Owners :
              LET c == Workflow!ClaimedTask(task, r, o)
              IN /\ c \in Workflow!Task /\ c.state = "in_progress" /\ c.checkout = r
                 /\ c.owner = o /\ c.execution = r /\ c.run = task.run /\ c.role = task.role
                 /\ c.completed = task.completed
  BY DEF Workflow!ReleasedTask, Workflow!ClaimedTask, Workflow!Task, SameButExecution,
         Workflow!TaskStates

\* With no decision under way the base is what is committed, and that is all
\* there is to the invariants.
LEMMA Transfer ==
  ASSUME BaseTasks = saved.tasks
  PROVE  SavedOk <=> BaseOk
  <1>1. Saved!TypeOK <=> Base!TypeOK
    BY SameRows DEF Saved!TypeOK, Base!TypeOK
  <1>2. Saved!PlansComplete <=> Base!PlansComplete
    BY DEF Saved!PlansComplete, Base!PlansComplete
  <1>3. Saved!ApprovalAgreesWithTask <=> Base!ApprovalAgreesWithTask
    BY DEF Saved!ApprovalAgreesWithTask, Base!ApprovalAgreesWithTask,
           Saved!StateUnderReview, Base!StateUnderReview, Saved!TargetTaskState,
           Base!TargetTaskState, Saved!UnresolvedStatuses, Base!UnresolvedStatuses
  <1>4. Saved!RunWaitsForItsApprovals <=> Base!RunWaitsForItsApprovals
    BY DEF Saved!RunWaitsForItsApprovals, Base!RunWaitsForItsApprovals,
           Saved!BlockingRun, Base!BlockingRun, Saved!UnresolvedStatuses, Base!UnresolvedStatuses
  <1>5. Saved!RunOutcomeFollowsTasks <=> Base!RunOutcomeFollowsTasks
    BY DEF Saved!RunOutcomeFollowsTasks, Base!RunOutcomeFollowsTasks
  <1>6. Saved!LockConsistent <=> Base!LockConsistent
    BY DEF Saved!LockConsistent, Base!LockConsistent
  <1> QED
    BY <1>1, <1>2, <1>3, <1>4, <1>5, <1>6 DEF SavedOk, BaseOk, Saved!IInv, Base!IInv

LEMMA TransferNext == (BaseTasks = saved.tasks => (SavedOk <=> BaseOk))'
  <1>1. BaseTasks = saved.tasks => (SavedOk <=> BaseOk)
    BY Transfer
  <1> QED
    BY <1>1, PTL

-----------------------------------------------------------------------------
(* What a step may do to the committed tables.                             *)

\* The three action properties of the committed tables, for one step.
Legal ==
  /\ \A t \in Tasks : saved.tasks[t].checkout # None =>
       /\ saved'.tasks[t].checkout = saved.tasks[t].checkout
       /\ saved'.tasks[t].owner = saved.tasks[t].owner
  /\ \A r \in Runs : saved.runs[r].status \in {"done", "failed"} =>
       saved'.runs[r] = saved.runs[r]
  /\ \A t \in Tasks : saved.tasks[t].state \in {"done", "blocked"} =>
       saved'.tasks[t] = saved.tasks[t]
  /\ \A a \in ApprovalIds : saved.approvals[a].status \in {"approved", "rejected"} =>
       saved'.approvals[a] = saved.approvals[a]
  /\ \A t \in Tasks :
       saved.tasks[t].state = "waiting_approval" /\ saved'.tasks[t].state # "waiting_approval" =>
         \E a \in ApprovalIds :
           /\ saved.approvals[a].task = t
           /\ saved.approvals[a].status \in Workflow!UnresolvedStatuses
           /\ saved'.approvals[a].status \in Workflow!Decisions
           /\ saved'.approvals[a].decidedBy \in Users
  /\ \A r \in Runs :
       saved.runs[r].status = "waiting_approval" /\ saved'.runs[r].status # "waiting_approval" =>
         \A a \in ApprovalIds :
           saved'.approvals[a].run = r => saved'.approvals[a].status \notin Workflow!UnresolvedStatuses

LEMMA NothingCommitted ==
  ASSUME saved' = saved
  PROVE  Legal
  BY DEF Legal

\* A base that does not change keeps what holds of it.
LEMMA StillBase ==
  ASSUME SavedOk, BaseOk, saved' = saved, BaseTasks' = BaseTasks
  PROVE  SavedOk' /\ BaseOk'
  <1>1. UNCHANGED Saved!vars /\ UNCHANGED Base!vars
    BY DEF Saved!vars, Base!vars
  <1>2. SavedOk'
    BY <1>1, Saved!NextIInv, Saved!NextLock, ConstantsAssumption DEF SavedOk, Saved!IInv
  <1>3. BaseOk'
    BY <1>1, Base!NextIInv, Base!NextLock, ConstantsAssumption DEF BaseOk, Base!IInv
  <1> QED
    BY <1>2, <1>3

\* A whole step of the workflow on the base.
LEMMA WholeStep ==
  ASSUME BaseOk, Base!Next
  PROVE  BaseOk'
  BY Base!NextIInv, Base!NextLock, ConstantsAssumption DEF BaseOk, Base!IInv

LEMMA WholeLegal ==
  ASSUME IInv, Base!Next, BaseOk', saved'.tasks = BaseTasks'
  PROVE  Legal
  <1>1. Base!IInv /\ Base!TypeOK /\ Base!LockConsistent /\ [Base!Next]_Base!vars
    BY DEF IInv, BaseOk, Base!IInv
  <1>2. \A t \in Tasks : Kept(saved.tasks[t], BaseTasks[t])
    BY DEF IInv, TransactionOk
  <1>3. \A t \in Tasks : BaseTasks[t].checkout # None =>
          BaseTasks'[t].checkout = BaseTasks[t].checkout /\ BaseTasks'[t].owner = BaseTasks[t].owner
    BY <1>1, Base!OwnershipStep, ConstantsAssumption
  <1>4. /\ \A q \in Runs : saved.runs[q].status \in {"done", "failed"} => saved'.runs[q] = saved.runs[q]
        /\ \A v \in Tasks : BaseTasks[v].state \in {"done", "blocked"} => BaseTasks'[v] = BaseTasks[v]
        /\ \A b \in ApprovalIds : saved.approvals[b].status \in {"approved", "rejected"} =>
             saved'.approvals[b] = saved.approvals[b]
    BY <1>1, Base!SettledStep, ConstantsAssumption
  <1>5. \A v \in Tasks : BaseTasks[v].state = "waiting_approval" /\ BaseTasks'[v].state # "waiting_approval" =>
          \E a \in ApprovalIds : /\ saved.approvals[a].task = v
                                /\ saved.approvals[a].status \in Base!UnresolvedStatuses
                                /\ saved'.approvals[a].status \in Base!Decisions
                                /\ saved'.approvals[a].decidedBy \in Users
    BY <1>1, Base!GateStep, ConstantsAssumption
  <1>6. \A r \in Runs : saved'.runs[r].status # "waiting_approval" =>
          \A a \in ApprovalIds :
            saved'.approvals[a].run = r => saved'.approvals[a].status \notin Base!UnresolvedStatuses
    BY DEF BaseOk, Base!IInv, Base!RunWaitsForItsApprovals, Base!BlockingRun
  <1>7. Base!UnresolvedStatuses = Workflow!UnresolvedStatuses /\ Base!Decisions = Workflow!Decisions
    BY DEF Base!UnresolvedStatuses, Workflow!UnresolvedStatuses, Base!Decisions, Workflow!Decisions
  <1>8. \A t \in Tasks : saved.tasks[t].checkout # None =>
          saved'.tasks[t].checkout = saved.tasks[t].checkout /\ saved'.tasks[t].owner = saved.tasks[t].owner
    BY <1>2, <1>3 DEF Kept
  <1>9. \A t \in Tasks : saved.tasks[t].state \in {"done", "blocked"} =>
          saved'.tasks[t] = saved.tasks[t]
    BY <1>2, <1>4 DEF Kept
  <1>10. \A t \in Tasks :
          saved.tasks[t].state = "waiting_approval" /\ saved'.tasks[t].state # "waiting_approval" =>
            \E a \in ApprovalIds :
              /\ saved.approvals[a].task = t
              /\ saved.approvals[a].status \in Workflow!UnresolvedStatuses
              /\ saved'.approvals[a].status \in Workflow!Decisions
              /\ saved'.approvals[a].decidedBy \in Users
    BY <1>2, <1>5, <1>7 DEF Kept
  <1> QED
    BY <1>4, <1>6, <1>7, <1>8, <1>9, <1>10 DEF Legal

-----------------------------------------------------------------------------
(* A claim or a release on the base.                                       *)

\* A row that stays, is released, or is claimed by who is entitled to it.
QuietRow(old, new) ==
  \/ new = old
  \/ new = Workflow!ReleasedTask(old)
  \/ \E r \in Runs, o \in Workflow!Owners :
       /\ old.state \in Workflow!ClaimableStates
       /\ old.checkout \in {None, r} /\ old.owner \in {None, o}
       /\ o \in Roles => o = old.role
       /\ o \in Runs => o = r
       /\ new = Workflow!ClaimedTask(old, r, o)

LEMMA QuietRows ==
  ASSUME NEW old \in Workflow!Task, Base!LockedRow(old), NEW new, QuietRow(old, new)
  PROVE  /\ new \in Workflow!Task /\ Base!LockedRow(new)
         /\ new.run = old.run /\ Kept(old, new)
         /\ new.state = old.state \/ (old.state = "todo" /\ new.state = "in_progress")
  <1>1. CASE new = old
    BY <1>1 DEF Kept
  <1>2. CASE new = Workflow!ReleasedTask(old)
    <2>1. new = [old EXCEPT !.execution = None]
      BY <1>2 DEF Workflow!ReleasedTask
    <2>2. new \in Workflow!Task /\ SameButExecution(old, new) /\ new.execution = None
      BY <1>2, Rows
    <2>3. old.state \in {"done", "blocked"} => new = old
      BY <2>1 DEF Workflow!Task, Base!LockedRow
    <2>4. Base!LockedRow(new)
      BY <2>2 DEF Base!LockedRow, SameButExecution
    <2> QED
      BY <2>2, <2>3, <2>4 DEF Kept, SameButExecution
  <1>3. ASSUME NEW r \in Runs, NEW o \in Workflow!Owners,
               old.state \in Workflow!ClaimableStates,
               old.checkout \in {None, r}, old.owner \in {None, o},
               o \in Roles => o = old.role, o \in Runs => o = r,
               new = Workflow!ClaimedTask(old, r, o)
        PROVE  /\ new \in Workflow!Task /\ Base!LockedRow(new)
               /\ new.run = old.run /\ Kept(old, new)
               /\ new.state = old.state \/ (old.state = "todo" /\ new.state = "in_progress")
    <2>1. /\ new \in Workflow!Task /\ new.state = "in_progress" /\ new.checkout = r
          /\ new.owner = o /\ new.execution = r /\ new.run = old.run /\ new.role = old.role
      BY <1>3, Rows
    <2>2. r # None /\ o # None
      BY ConstantsAssumption DEF Workflow!Owners
    <2>3. Base!LockedRow(new)
      BY <1>3, <2>1, <2>2 DEF Base!LockedRow
    <2>4. old.state = "todo" \/ old.state = "in_progress"
      BY <1>3 DEF Workflow!ClaimableStates
    <2>5. Kept(old, new)
      BY <1>3, <2>1, <2>4, ConstantsAssumption DEF Kept, Base!LockedRow
    <2> QED
      BY <2>1, <2>3, <2>4, <2>5
  <1> QED
    BY <1>1, <1>2, <1>3 DEF QuietRow

QuietBase ==
  /\ saved'.approvals = saved.approvals
  /\ DOMAIN BaseTasks' = Tasks /\ \A t \in Tasks : QuietRow(BaseTasks[t], BaseTasks'[t])
  /\ saved'.runs \in [Runs -> Workflow!Run]
  /\ \A r \in Runs : \/ saved'.runs[r] = saved.runs[r]
                     \/ saved.runs[r].status = "planned" /\ saved'.runs[r].status = "running"

LEMMA QuietStep ==
  ASSUME TypeOK, BaseOk, QuietBase
  PROVE  BaseOk' /\ \A t \in Tasks : Kept(BaseTasks[t], BaseTasks'[t])
  <1>1. \A t \in Tasks : BaseTasks[t] \in Workflow!Task /\ Base!LockedRow(BaseTasks[t])
    BY Types DEF BaseOk, Base!LockConsistent, Base!LockedRow
  <1>2. \A t \in Tasks :
          /\ BaseTasks'[t] \in Workflow!Task /\ Base!LockedRow(BaseTasks'[t])
          /\ BaseTasks'[t].run = BaseTasks[t].run /\ Kept(BaseTasks[t], BaseTasks'[t])
          /\ \/ BaseTasks'[t].state = BaseTasks[t].state
             \/ BaseTasks[t].state = "todo" /\ BaseTasks'[t].state = "in_progress"
    BY <1>1, QuietRows DEF QuietBase
  <1>3. Base!LockConsistent'
    BY <1>2 DEF Base!LockConsistent, Base!LockedRow
  <1>4. BaseTasks' \in [Tasks -> Workflow!Task]
    BY <1>2 DEF QuietBase, BaseTasks
  <1>5. Base!TypeOK'
    BY <1>4, Types, SameRows DEF Base!TypeOK, QuietBase
  <1>6. Base!IInv'
    BY <1>2, <1>5, Base!QuietIInv, ConstantsAssumption DEF BaseOk, QuietBase
  <1> QED
    BY <1>2, <1>3, <1>6 DEF BaseOk

\* When such a step is committed, with what the transaction did before.
LEMMA QuietLegal ==
  ASSUME IInv, QuietBase, saved'.tasks = BaseTasks',
         \A t \in Tasks : Kept(BaseTasks[t], BaseTasks'[t])
  PROVE  Legal
  <1>1. \A t \in Tasks : Kept(saved.tasks[t], saved'.tasks[t])
    BY DEF Kept, IInv, TransactionOk
  <1>2. /\ saved'.approvals = saved.approvals
        /\ \A r \in Runs : \/ saved'.runs[r] = saved.runs[r]
                           \/ saved.runs[r].status = "planned" /\ saved'.runs[r].status = "running"
    BY DEF QuietBase
  <1> QED
    BY <1>1, <1>2 DEF Kept, Legal

-----------------------------------------------------------------------------
(* The calls.                                                              *)

Underway == {"read", "swapped", "lost", "failed", "decided", "moved"}

LEMMA EndedType ==
  ASSUME NEW outcome \in Underway \cup Ended
  PROVE  /\ EndedCall(outcome) \in Call /\ EndedCall(outcome).pc = outcome
         /\ EndedCall(outcome).kind = "none"
  BY DEF EndedCall, Call, Ended, Underway, Workflow!NoTask, Workflow!Task, Workflow!TaskStates

LEMMA Moved ==
  ASSUME TypeOK, NEW p \in Callers, NEW pc \in Underway, Move(p, pc)
  PROVE  /\ calls' \in [Callers -> Call]
         /\ \A q \in Callers \ {p} : calls'[q] = calls[q]
         /\ calls'[p].pc = pc /\ calls'[p].kind = calls[p].kind /\ calls'[p].task = calls[p].task
         /\ calls'[p].run = calls[p].run /\ calls'[p].owner = calls[p].owner
         /\ calls'[p].decision = calls[p].decision /\ calls'[p].current = calls[p].current
  <1> DEFINE c == [calls[p] EXCEPT !.pc = pc]
  <1>1. calls \in [Callers -> Call] /\ calls[p] \in Call
    BY DEF TypeOK
  <1>2. c \in Call
    BY <1>1 DEF Call, Underway
  <1>3. /\ c.pc = pc /\ c.kind = calls[p].kind /\ c.task = calls[p].task
        /\ c.run = calls[p].run /\ c.owner = calls[p].owner
        /\ c.decision = calls[p].decision /\ c.current = calls[p].current
    BY <1>1 DEF Call
  <1>4. calls' = [calls EXCEPT ![p] = c]
    BY <1>1 DEF Move, Call
  <1> HIDE DEF c
  <1> QED
    BY <1>1, <1>2, <1>3, <1>4

LEMMA EndsCall ==
  ASSUME TypeOK, NEW p \in Callers, NEW outcome \in Ended, End(p, outcome)
  PROVE  /\ calls' \in [Callers -> Call]
         /\ \A q \in Callers \ {p} : calls'[q] = calls[q]
         /\ calls'[p].pc = outcome
  BY EndedType DEF TypeOK, End

\* The row a call has read, at the time it reads it.
LEMMA ReadType ==
  ASSUME TypeOK, NEW kind \in {"claim", "release", "submit"}, NEW t \in Tasks,
         NEW r \in Runs, NEW o \in Workflow!Owners
  PROVE  LET c == ReadCall(kind, t, r, o)
         IN /\ c \in Call /\ c.pc = "read" /\ c.kind = kind /\ c.task = t
            /\ c.run = r /\ c.owner = o /\ c.current = tasks[t]
  <1> DEFINE e == EndedCall("read")
             c == [e EXCEPT !.kind = kind, !.task = t, !.run = r, !.owner = o, !.current = tasks[t]]
  <1>1. e \in Call /\ e.pc = "read"
    BY EndedType DEF Underway
  <1>2. tasks[t] \in Workflow!Task
    BY Types
  <1> HIDE DEF e
  <1>3. /\ c \in Call /\ c.pc = "read" /\ c.kind = kind /\ c.task = t
        /\ c.run = r /\ c.owner = o /\ c.current = tasks[t]
    BY <1>1, <1>2 DEF Call
  <1>4. ReadCall(kind, t, r, o) = c
    BY DEF ReadCall, e
  <1> QED
    BY <1>3, <1>4

\* What a step of p leaves of the calls of others: nothing but releases runs
\* when the transaction is p's or nobody's, and a release of p changes no row
\* that has no execution lock.
LEMMA Others ==
  ASSUME IInv, NEW p \in Callers,
         \A q \in Callers \ {p} : calls'[q] = calls[q],
         \/ tx \in {None, p} /\ tx' \in {None, p}
         \/ /\ tx' = tx /\ saved' = saved /\ approvals' = approvals
            /\ \A t \in Tasks : /\ SameButExecution(tasks[t], tasks'[t])
                                /\ tasks[t].execution = None => tasks'[t] = tasks[t]
  PROVE  \A q \in Callers \ {p} : CallOk(q)'
  <1> SUFFICES ASSUME NEW q \in Callers \ {p}, calls[q].pc \notin Ended
               PROVE  CallOk(q)'
    BY DEF CallOk
  <1>1. CallOk(q) /\ calls'[q] = calls[q] /\ q # None
    BY CallersAssumption DEF IInv
  <1> DEFINE c == calls[q]
  <1>2. /\ c.task \in Tasks /\ c.kind # "none"
        /\ c.kind # "release" <=> tx = q
        /\ c.pc \in {"decided", "moved"} => c.kind = "decide"
        /\ c.pc \in {"read", "lost", "swapped"} => c.kind # "decide"
        /\ c.pc = "failed" => c.kind # "release"
        /\ c.kind \in {"claim", "submit"} => ClaimOk(c)
        /\ c.kind = "decide" => DecisionOk(c)
    BY <1>1 DEF CallOk
  <1>3. CASE tx # q /\ tx' # q
    BY <1>1, <1>2, <1>3 DEF CallOk
  <1>4. CASE /\ tx' = tx /\ saved' = saved /\ approvals' = approvals
             /\ \A t \in Tasks : /\ SameButExecution(tasks[t], tasks'[t])
                                 /\ tasks[t].execution = None => tasks'[t] = tasks[t]
    <2>1. c.kind \in {"claim", "submit"} => ClaimOk(c)'
      BY <1>1, <1>2, <1>4 DEF ClaimOk, SameButExecution
    <2>2. ASSUME c.kind = "decide", c.pc \in {"decided", "moved"}
          PROVE  tasks'[c.task] = tasks[c.task]
      <3>1. saved.tasks[c.task].state = "waiting_approval" /\ c.decision \in Workflow!Decisions
        BY <1>2, <2>2 DEF DecisionOk
      <3>2. saved.tasks[c.task].execution = None /\ saved.tasks[c.task] \in Workflow!Task
        BY <1>2, <3>1, Types DEF IInv, SavedOk, Saved!LockConsistent
      <3>3. Workflow!DecidedTask(saved.tasks[c.task], c.decision).execution = None
        BY <3>2 DEF Workflow!DecidedTask, Workflow!Task
      <3>4. tasks[c.task].execution = None
        BY <1>2, <2>2, <3>2, <3>3 DEF DecisionOk
      <3> QED
        BY <1>2, <1>4, <3>4
    <2>3. c.kind = "decide" => DecisionOk(c)'
      BY <1>1, <1>2, <1>4, <2>2 DEF DecisionOk
    <2> QED
      BY <1>1, <1>2, <1>4, <2>1, <2>3 DEF CallOk
  <1> QED
    BY <1>1, <1>3, <1>4

\* A step of p that writes no row.
LEMMA NoRowWritten ==
  ASSUME IInv, NEW p \in Callers, UNCHANGED <<runs, tasks, approvals, tx>>, Autocommit,
         calls' \in [Callers -> Call], \A q \in Callers \ {p} : calls'[q] = calls[q],
         tx = p => /\ calls'[p].kind = calls[p].kind /\ calls'[p].task = calls[p].task
                   /\ calls'[p].pc \notin Ended,
         CallOk(p)'
  PROVE  IInv' /\ Legal
  <1>1. TypeOK /\ SavedOk /\ BaseOk /\ TransactionOk /\ tx \in Callers \cup {None}
    BY Types DEF IInv
  <1>2. saved' = saved
    BY <1>1 DEF Autocommit, TransactionOk, Visible
  <1>3. \A t \in Tasks : UnderDecision(t)' <=> UnderDecision(t)
    BY <1>1 DEF UnderDecision
  <1>4. BaseTasks' = BaseTasks
    BY <1>2, <1>3 DEF BaseTasks
  <1>5. TypeOK'
    BY <1>1, <1>2 DEF TypeOK, Workflow!TypeOK, Committed!TypeOK
  <1>6. SavedOk' /\ BaseOk'
    BY <1>1, <1>2, <1>4, StillBase
  <1>7. TransactionOk'
    <2>1. tx' = None => saved' = Visible'
      BY <1>1, <1>2 DEF TransactionOk, Visible
    <2>2. tx' # None => runs' = saved'.runs
                        /\ (calls'[tx'].kind # "decide" => approvals' = saved'.approvals)
      BY <1>1, <1>2 DEF TransactionOk
    <2>3. \A t \in Tasks : Kept(saved'.tasks[t], BaseTasks'[t])
      BY <1>1, <1>2, <1>4 DEF TransactionOk
    <2> QED
      BY <2>1, <2>2, <2>3 DEF TransactionOk
  <1>8. \A q \in Callers \ {p} : CallOk(q)'
    <2>1. \A t \in Tasks : SameButExecution(tasks[t], tasks'[t]) /\ tasks'[t] = tasks[t]
      BY DEF SameButExecution
    <2> QED
      BY <1>2, <2>1, Others
  <1> QED
    BY <1>2, <1>5, <1>6, <1>7, <1>8, NothingCommitted DEF IInv

\* A refusal before or after it has reached the operation's error handler.
LEMMA FailIInv ==
  ASSUME IInv, NEW p \in Callers, calls[p].pc \in {"read", "lost", "decided"}, Fail(p),
         UNCHANGED <<runs, tasks, approvals, tx>>, Autocommit
  PROVE  IInv' /\ Legal
  <1>1. TypeOK /\ CallOk(p) /\ calls[p].pc \notin Ended
    BY DEF IInv, Ended
  <1>2. CASE tx = p
    <2>1. Move(p, "failed")
      BY <1>2 DEF Fail
    <2>2. /\ calls' \in [Callers -> Call] /\ \A q \in Callers \ {p} : calls'[q] = calls[q]
          /\ calls'[p].pc = "failed" /\ calls'[p].kind = calls[p].kind
          /\ calls'[p].task = calls[p].task
      BY <1>1, <2>1, Moved DEF Underway
    <2>3. CallOk(p)'
      BY <1>1, <1>2, <2>2 DEF CallOk, ClaimOk, DecisionOk
    <2>4. calls'[p].pc \notin Ended
      BY <2>2 DEF Ended
    <2> QED
      BY <2>2, <2>3, <2>4, NoRowWritten
  <1>3. CASE tx # p
    <2>1. End(p, "refused")
      BY <1>3 DEF Fail
    <2>2. /\ calls' \in [Callers -> Call] /\ \A q \in Callers \ {p} : calls'[q] = calls[q]
          /\ calls'[p].pc = "refused"
      BY <1>1, <2>1, EndsCall DEF Ended
    <2>3. CallOk(p)'
      BY <2>2 DEF CallOk, Ended
    <2> QED
      BY <1>3, <2>2, <2>3, NoRowWritten
  <1> QED
    BY <1>2, <1>3

\* A call that is over leaves the tables alone.
LEMMA EndIInv ==
  ASSUME IInv, NEW p \in Callers, NEW outcome \in Ended, End(p, outcome), tx # p,
         UNCHANGED <<runs, tasks, approvals, tx>>, Autocommit
  PROVE  IInv' /\ Legal
  <1>1. /\ calls' \in [Callers -> Call] /\ \A q \in Callers \ {p} : calls'[q] = calls[q]
        /\ calls'[p].pc = outcome
    BY EndsCall DEF IInv
  <1>2. CallOk(p)'
    BY <1>1 DEF CallOk
  <1> QED
    BY <1>1, <1>2, NoRowWritten

\* No call that is over has a transaction.
LEMMA NoneOpen ==
  ASSUME IInv, NEW p \in Callers
  PROVE  (calls[p].pc \in Ended => tx # p) /\ p # None
  BY CallersAssumption DEF IInv, TypeOK

LEMMA RefuseIInv ==
  ASSUME IInv, NEW p \in Callers, Refuse(p)
  PROVE  IInv' /\ Legal
  BY FailIInv DEF Refuse

LEMMA FinishReleaseIInv ==
  ASSUME IInv, NEW p \in Callers, FinishRelease(p)
  PROVE  IInv' /\ Legal
  <1>1. tx # p
    BY DEF IInv, CallOk, FinishRelease, Ended
  <1> QED
    BY <1>1, EndIInv DEF FinishRelease, Ended

LEMMA BeginReleaseIInv ==
  ASSUME IInv, NEW p \in Callers, NEW t \in Tasks, NEW r \in Runs, NEW o \in Workflow!Owners,
         BeginRelease(p, t, r, o)
  PROVE  IInv' /\ Legal
  <1> DEFINE c == ReadCall("release", t, r, o)
  <1>1. tx # p /\ tx' = tx
    BY NoneOpen DEF BeginRelease
  <1>2. c \in Call /\ c.pc = "read" /\ c.kind = "release" /\ c.task = t
    BY ReadType DEF IInv
  <1>3. calls' = [calls EXCEPT ![p] = c]
    BY DEF BeginRelease
  <1> HIDE DEF c
  <1>4. /\ calls' \in [Callers -> Call] /\ \A q \in Callers \ {p} : calls'[q] = calls[q]
        /\ calls'[p] = c
    BY <1>2, <1>3, Types DEF IInv
  <1>5. CallOk(p)'
    BY <1>1, <1>2, <1>4 DEF CallOk
  <1> QED
    BY <1>1, <1>4, <1>5, NoRowWritten DEF BeginRelease

\* What a call makes of the row it has read.
LEMMA WantedRow ==
  ASSUME NEW c \in Call, c.kind \in {"claim", "submit", "release"}
  PROVE  /\ c.kind = "release" => Wanted(c) = Workflow!ReleasedTask(c.current)
         /\ c.kind # "release" /\ c.run \in Runs /\ c.owner \in Workflow!Owners =>
              /\ Wanted(c) = Workflow!ClaimedTask(c.current, c.run, c.owner)
              /\ Wanted(c).state = "in_progress"
              /\ Wanted(c).checkout = c.run /\ Wanted(c).owner = c.owner
  <1>1. c.current \in Workflow!Task
    BY DEF Call
  <1>2. c.kind = "release" => Wanted(c) = Workflow!ReleasedTask(c.current)
    BY DEF Wanted
  <1>3. c.kind # "release" => Wanted(c) = Workflow!ClaimedTask(c.current, c.run, c.owner)
    BY DEF Wanted
  <1>4. \A r \in Runs, o \in Workflow!Owners :
          /\ Workflow!ClaimedTask(c.current, r, o).state = "in_progress"
          /\ Workflow!ClaimedTask(c.current, r, o).checkout = r
          /\ Workflow!ClaimedTask(c.current, r, o).owner = o
    BY <1>1, Rows
  <1> QED
    BY <1>2, <1>3, <1>4

LEMMA RereadIInv ==
  ASSUME IInv, NEW p \in Callers, Reread(p)
  PROVE  IInv' /\ Legal
  <1> DEFINE c == calls[p]
             again == [c EXCEPT !.current = tasks[c.task], !.pc = "read"]
  <1>1. TypeOK /\ CallOk(p) /\ c.pc = "lost" /\ c.pc \notin Ended /\ c \in Call
    BY Types DEF IInv, Reread, Ended
  <1>2. /\ c.task \in Tasks /\ c.kind \in {"claim", "submit", "release"}
        /\ c.kind # "release" <=> tx = p
        /\ c.kind \in {"claim", "submit"} => ClaimOk(c)
    BY <1>1 DEF CallOk, Call
  <1>3. /\ UNCHANGED <<runs, tasks, approvals, tx>> /\ Autocommit
        /\ IF tasks[c.task] = Wanted(c) THEN Move(p, "swapped")
           ELSE \/ calls' = [calls EXCEPT ![p] = again]
                \/ Wanted(again) # again.current /\ Fail(p)
    BY DEF Reread
  <1>4. CASE tasks[c.task] = Wanted(c) /\ Move(p, "swapped")
    <2>1. /\ calls' \in [Callers -> Call] /\ \A q \in Callers \ {p} : calls'[q] = calls[q]
          /\ calls'[p].pc = "swapped" /\ calls'[p].kind = c.kind /\ calls'[p].task = c.task
          /\ calls'[p].run = c.run /\ calls'[p].owner = c.owner
      BY <1>1, <1>4, Moved DEF Underway
    <2>2. c.kind \in {"claim", "submit"} =>
            /\ tasks[c.task].state = "in_progress"
            /\ tasks[c.task].checkout = c.run /\ tasks[c.task].owner = c.owner
      BY <1>1, <1>2, <1>4, WantedRow DEF ClaimOk
    <2>3. calls'[p].pc \notin Ended
      BY <2>1 DEF Ended
    <2>4. c.kind \in {"claim", "submit"} => ClaimOk(calls[p])'
      BY <1>1, <1>2, <1>3, <2>1, <2>2 DEF ClaimOk
    <2>5. CallOk(p)'
      BY <1>2, <1>3, <2>1, <2>4 DEF CallOk
    <2> QED
      BY <1>3, <2>1, <2>3, <2>5, NoRowWritten
  <1>5. CASE calls' = [calls EXCEPT ![p] = again]
    <2>1. /\ again \in Call /\ again.pc = "read" /\ again.kind = c.kind /\ again.task = c.task
          /\ again.run = c.run /\ again.owner = c.owner /\ again.current = tasks[c.task]
      BY <1>1, <1>2, Types DEF Call
    <2> HIDE DEF again
    <2>2. /\ calls' \in [Callers -> Call] /\ \A q \in Callers \ {p} : calls'[q] = calls[q]
          /\ calls'[p] = again
      BY <1>1, <1>5, <2>1, Types
    <2>3. c.kind \in {"claim", "submit"} => ClaimOk(calls[p])'
      BY <1>1, <1>2, <1>3, <2>1, <2>2 DEF ClaimOk, SameButExecution
    <2>4. CallOk(p)' /\ calls'[p].pc \notin Ended
      BY <1>2, <1>3, <2>1, <2>2, <2>3 DEF CallOk, Ended
    <2> QED
      BY <1>3, <2>1, <2>2, <2>4, NoRowWritten
  <1>6. CASE Fail(p)
    BY <1>1, <1>3, <1>6, FailIInv
  <1> QED
    BY <1>3, <1>4, <1>5, <1>6

-----------------------------------------------------------------------------
(* The compare-and-swap.                                                   *)

LEMMA StillSaved ==
  ASSUME SavedOk, saved' = saved
  PROVE  SavedOk'
  <1>1. UNCHANGED Saved!vars
    BY DEF Saved!vars
  <1> QED
    BY <1>1, Saved!NextIInv, Saved!NextLock, ConstantsAssumption DEF SavedOk, Saved!IInv

LEMMA NotRefused ==
  ASSUME TypeOK, NEW p \in Callers, calls[p].task \in Tasks, ~Refuses(p)
  PROVE  /\ calls[p].kind # "release" => calls[p].current.state \in Workflow!ClaimableStates
         /\ calls[p].current.checkout \in {None, calls[p].run}
         /\ calls[p].current.owner \in {None, calls[p].owner}
  BY DEF TypeOK, Workflow!TypeOK, Refuses, Seen!NoClaimConflict

LEMMA SwapCallOk ==
  ASSUME IInv, NEW p \in Callers, calls[p].pc = "read", tx' = tx,
         calls'[p].kind = calls[p].kind, calls'[p].task = calls[p].task,
         calls'[p].run = calls[p].run, calls'[p].owner = calls[p].owner,
         calls'[p].current = calls[p].current,
         \/ /\ calls'[p].pc = "swapped"
            /\ \/ Wanted(calls[p]) = calls[p].current /\ tasks' = tasks
               \/ tasks'[calls[p].task] = Wanted(calls[p])
         \/ calls'[p].pc = "lost" /\ tasks' = tasks
  PROVE  CallOk(p)'
  <1> DEFINE c == calls[p]
  <1>1. c \in Call /\ CallOk(p) /\ c.pc \notin Ended
    BY Types DEF IInv, Ended
  <1>2. /\ c.task \in Tasks /\ c.kind \in {"claim", "submit", "release"}
        /\ c.kind # "release" <=> tx = p
        /\ c.kind \in {"claim", "submit"} => ClaimOk(c)
    BY <1>1 DEF CallOk, Call
  <1>3. ASSUME c.kind \in {"claim", "submit"}
        PROVE  ClaimOk(calls[p])'
    <2>1. /\ c.run \in Runs /\ c.owner \in Workflow!Owners
          /\ Workflow!OwnerIdentityOk(c.run, c.owner)
          /\ c.owner \in Roles => c.owner = tasks[c.task].role
          /\ SameButExecution(c.current, tasks[c.task])
      BY <1>2, <1>3 DEF ClaimOk
    <2>2. /\ Wanted(c).state = "in_progress"
          /\ Wanted(c).checkout = c.run /\ Wanted(c).owner = c.owner
      BY <1>1, <1>3, <2>1, WantedRow
    <2>3. CASE calls'[p].pc = "swapped"
      <3>1. /\ tasks'[c.task].state = "in_progress"
            /\ tasks'[c.task].checkout = c.run /\ tasks'[c.task].owner = c.owner
        BY <2>1, <2>2, <2>3 DEF SameButExecution
      <3> QED
        BY <2>1, <2>3, <3>1 DEF ClaimOk
    <2>4. CASE calls'[p].pc = "lost" /\ tasks' = tasks
      BY <2>1, <2>4 DEF ClaimOk
    <2> QED
      BY <2>3, <2>4
  <1> QED
    BY <1>2, <1>3 DEF CallOk

LEMMA SwapIInv ==
  ASSUME IInv, NEW p \in Callers, Swap(p)
  PROVE  IInv' /\ Legal
  <1> DEFINE c == calls[p]
             t == calls[p].task
  <1>1. /\ TypeOK /\ CallOk(p) /\ c.pc = "read" /\ c.pc \notin Ended /\ c \in Call
        /\ SavedOk /\ BaseOk /\ TransactionOk /\ tx \in Callers \cup {None}
    BY Types DEF IInv, Swap, Ended
  <1>2. /\ t \in Tasks /\ c.kind \in {"claim", "submit", "release"}
        /\ c.kind # "release" <=> tx = p
        /\ c.kind \in {"claim", "submit"} => ClaimOk(c)
    BY <1>1 DEF CallOk, Call
  <1>3. UNCHANGED <<runs, approvals, tx>> /\ Autocommit /\ ~Refuses(p)
    BY DEF Swap
  <1>4. \/ Move(p, "swapped") /\ Wanted(c) = c.current /\ tasks' = tasks
        \/ Move(p, "lost") /\ tasks' = tasks
        \/ /\ Move(p, "swapped") /\ Wanted(c) # c.current /\ tasks[t] = c.current
           /\ tasks' = [tasks EXCEPT ![t] = Wanted(c)]
    BY DEF Swap
  <1>5. /\ calls' \in [Callers -> Call] /\ \A q \in Callers \ {p} : calls'[q] = calls[q]
        /\ calls'[p].kind = c.kind /\ calls'[p].task = c.task /\ calls'[p].run = c.run
        /\ calls'[p].owner = c.owner /\ calls'[p].current = c.current
        /\ Move(p, "swapped") => calls'[p].pc = "swapped"
        /\ Move(p, "lost") => calls'[p].pc = "lost"
    BY <1>1, <1>4, Moved DEF Underway
  <1>6. calls'[p].pc \notin Ended
    BY <1>4, <1>5 DEF Ended
  <1>7. CallOk(p)'
    <2>1. tasks' = [tasks EXCEPT ![t] = Wanted(c)] => tasks'[t] = Wanted(c)
      BY <1>1, <1>2, Types
    <2> QED
      BY <1>1, <1>3, <1>4, <1>5, <2>1, SwapCallOk
  <1>8. CASE tasks' = tasks
    BY <1>3, <1>5, <1>6, <1>7, <1>8, NoRowWritten
  <1>9. CASE tasks[t] = c.current /\ tasks' = [tasks EXCEPT ![t] = Wanted(c)]
    <2>1. QuietRow(tasks[t], Wanted(c)) /\ (c.kind = "release" => Wanted(c) = Workflow!ReleasedTask(tasks[t]))
      <3>1. CASE c.kind = "release"
        BY <1>1, <1>9, <3>1, WantedRow DEF QuietRow
      <3>2. CASE c.kind # "release"
        <4>1. /\ c.run \in Runs /\ c.owner \in Workflow!Owners
              /\ c.owner \in Runs => c.owner = c.run
              /\ c.owner \in Roles => c.owner = tasks[t].role
          BY <1>1, <1>2, <3>2 DEF ClaimOk, Workflow!OwnerIdentityOk
        <4>2. /\ tasks[t].state \in Workflow!ClaimableStates
              /\ tasks[t].checkout \in {None, c.run} /\ tasks[t].owner \in {None, c.owner}
          BY <1>1, <1>2, <1>3, <1>9, <3>2, NotRefused
        <4>3. Wanted(c) = Workflow!ClaimedTask(tasks[t], c.run, c.owner)
          BY <1>1, <1>2, <1>9, <3>2, <4>1, WantedRow
        <4> QED
          BY <3>2, <4>1, <4>2, <4>3 DEF QuietRow
      <3> QED
        BY <3>1, <3>2
    <2>2. \A u \in Tasks : QuietRow(tasks[u], tasks'[u])
      BY <1>1, <1>2, <1>9, <2>1, Types DEF QuietRow
    <2>3. tx # None => saved' = saved
      BY <1>3 DEF Autocommit
    <2>4. tx = None => /\ saved = Visible /\ saved' = Visible'
                       /\ BaseTasks = tasks /\ BaseTasks' = tasks' /\ saved'.tasks = tasks'
      <3>1. tx = None => BaseTasks = tasks
        BY <1>1, Types DEF UnderDecision, BaseTasks
      <3>2. tx = None => BaseTasks' = tasks'
        BY <1>1, <1>3, <1>9, Types DEF UnderDecision, BaseTasks
      <3> QED
        BY <1>1, <1>3, <3>1, <3>2 DEF TransactionOk, Autocommit, Visible
    <2>5. \A u \in Tasks : QuietRow(BaseTasks[u], BaseTasks'[u])
      <3>1. \A u \in Tasks : UnderDecision(u)' <=> UnderDecision(u)
        BY <1>1, <1>3, <1>5 DEF UnderDecision
      <3>2. \A u \in Tasks : UnderDecision(u) => BaseTasks'[u] = BaseTasks[u]
        BY <2>3, <3>1 DEF BaseTasks, UnderDecision
      <3>3. \A u \in Tasks : ~UnderDecision(u) => BaseTasks'[u] = tasks'[u] /\ BaseTasks[u] = tasks[u]
        BY <3>1 DEF BaseTasks
      <3> QED
        BY <2>2, <3>2, <3>3 DEF QuietRow
    <2>6. QuietBase
      <3>1. saved'.approvals = saved.approvals /\ saved'.runs = saved.runs
        BY <1>3, <2>3, <2>4 DEF Visible
      <3>2. DOMAIN BaseTasks' = Tasks
        BY DEF BaseTasks
      <3> QED
        BY <1>1, <2>5, <3>1, <3>2, Types DEF QuietBase
    <2>7. BaseOk' /\ \A u \in Tasks : Kept(BaseTasks[u], BaseTasks'[u])
      BY <1>1, <2>6, QuietStep
    <2>8. SavedOk'
      BY <1>1, <2>3, <2>4, <2>7, StillSaved, TransferNext
    <2>9. TransactionOk'
      <3>1. ASSUME NEW u \in Tasks
            PROVE  Kept(saved'.tasks[u], BaseTasks'[u])
        <4>1. CASE tx = None
          BY <2>4, <4>1 DEF Kept
        <4>2. CASE tx # None
          BY <1>1, <2>3, <2>7, <4>2 DEF TransactionOk, Kept
        <4> QED
          BY <4>1, <4>2
      <3>2. tx' = None => saved' = Visible'
        BY <1>3, <2>4
      <3>3. tx' # None => runs' = saved'.runs /\ (calls'[tx'].kind # "decide" => approvals' = saved'.approvals)
        BY <1>1, <1>3, <1>5, <2>3 DEF TransactionOk
      <3> QED
        BY <3>1, <3>2, <3>3 DEF TransactionOk
    <2>10. TypeOK'
      <3>1. tasks' \in [Tasks -> Workflow!Task]
        <4>1. Wanted(c) \in Workflow!Task
          BY <1>1, <1>2, <2>1, Rows, Types DEF QuietRow
        <4> QED
          BY <1>1, <1>9, <4>1, Types
      <3>2. /\ saved'.runs \in [Runs -> Workflow!Run] /\ saved'.tasks \in [Tasks -> Workflow!Task]
            /\ saved'.approvals \in [ApprovalIds -> Workflow!Approval]
        BY <1>1, <2>3, <2>4, <2>6, <3>1, Types DEF QuietBase
      <3> QED
        BY <1>1, <1>3, <1>5, <1>6, <3>1, <3>2, SameRows, Types
           DEF TypeOK, Workflow!TypeOK, Committed!TypeOK
    <2>11. \A q \in Callers \ {p} : CallOk(q)'
      <3>1. CASE tx \in {None, p}
        BY <1>3, <1>5, <3>1, Others
      <3>2. CASE tx \notin {None, p}
        <4>1. Wanted(c) = Workflow!ReleasedTask(tasks[t])
          BY <1>2, <2>1, <3>2
        <4>2. /\ SameButExecution(tasks[t], Wanted(c))
              /\ tasks[t].execution = None => Wanted(c) = tasks[t]
          BY <1>1, <1>2, <4>1, Rows, Types DEF Workflow!ReleasedTask, Workflow!Task
        <4>3. \A u \in Tasks : /\ SameButExecution(tasks[u], tasks'[u])
                               /\ tasks[u].execution = None => tasks'[u] = tasks[u]
          BY <1>1, <1>2, <1>9, <4>2, Types DEF SameButExecution
        <4> QED
          BY <1>3, <1>5, <2>3, <3>2, <4>3, Others
      <3> QED
        BY <3>1, <3>2
    <2>12. Legal
      BY <2>3, <2>4, <2>6, <2>7, NothingCommitted, QuietLegal
    <2> QED
      BY <1>7, <2>7, <2>8, <2>9, <2>10, <2>11, <2>12 DEF IInv
  <1> QED
    BY <1>4, <1>8, <1>9

-----------------------------------------------------------------------------
(* Transactions begin, are committed and are rolled back.                  *)

\* After COMMIT the base is what is committed.
LEMMA CommittedIInv ==
  ASSUME IInv, BaseOk', tx' = None, Autocommit, tasks' \in [Tasks -> Workflow!Task],
         calls' \in [Callers -> Call], \A p \in Callers : CallOk(p)'
  PROVE  IInv'
  <1>1. saved' = Visible'
    BY DEF Autocommit
  <1>2. BaseTasks' = tasks' /\ saved'.tasks = tasks'
    BY <1>1 DEF BaseTasks, UnderDecision, Visible
  <1>3. SavedOk'
    BY <1>2, TransferNext
  <1>4. saved'.runs = runs' /\ saved'.approvals = approvals'
    BY <1>1 DEF Visible
  <1>5. runs' \in [Runs -> Workflow!Run] /\ approvals' \in [ApprovalIds -> Workflow!Approval]
    BY <1>4, SameRows DEF BaseOk, Base!IInv, Base!TypeOK
  <1>6. TypeOK'
    BY <1>2, <1>4, <1>5, SameRows, CallersAssumption DEF TypeOK, Workflow!TypeOK, Committed!TypeOK
  <1>7. TransactionOk'
    BY <1>1, <1>2 DEF TransactionOk, Kept
  <1> QED
    BY <1>3, <1>6, <1>7 DEF IInv

\* The calls at the end of p's transaction.
LEMMA EndOfTransaction ==
  ASSUME IInv, NEW p \in Callers, NEW outcome \in Ended, End(p, outcome), tx = p, tx' = None
  PROVE  calls' \in [Callers -> Call] /\ \A q \in Callers : CallOk(q)'
  <1>1. /\ calls' \in [Callers -> Call] /\ \A q \in Callers \ {p} : calls'[q] = calls[q]
        /\ calls'[p].pc = outcome
    BY EndsCall DEF IInv
  <1>2. CallOk(p)'
    BY <1>1 DEF CallOk
  <1>3. \A q \in Callers \ {p} : CallOk(q)'
    BY <1>1, Others
  <1> QED
    BY <1>1, <1>2, <1>3

LEMMA RollbackIInv ==
  ASSUME IInv, NEW p \in Callers, tx = p, Rollback(p), Autocommit
  PROVE  IInv' /\ Legal
  <1>1. /\ runs' = saved.runs /\ tasks' = saved.tasks /\ approvals' = saved.approvals
        /\ tx' = None /\ saved' = Visible' /\ End(p, "refused")
    BY DEF Rollback, Autocommit
  <1>2. saved'.runs = saved.runs /\ saved'.tasks = saved.tasks /\ saved'.approvals = saved.approvals
    BY <1>1 DEF Visible
  <1>3. SavedOk'
    <2>1. UNCHANGED Saved!vars
      BY <1>2 DEF Saved!vars
    <2> QED
      BY <2>1, Saved!NextIInv, Saved!NextLock, ConstantsAssumption DEF IInv, SavedOk, Saved!IInv
  <1>4. tasks' \in [Tasks -> Workflow!Task]
    BY <1>1, Types DEF IInv
  <1>5. BaseTasks' = saved'.tasks
    BY <1>1, <1>2, <1>4 DEF BaseTasks, UnderDecision
  <1>6. BaseOk'
    BY <1>3, <1>5, TransferNext
  <1>7. calls' \in [Callers -> Call] /\ \A q \in Callers : CallOk(q)'
    BY <1>1, EndOfTransaction DEF Ended
  <1>8. IInv'
    BY <1>1, <1>4, <1>6, <1>7, CommittedIInv
  <1> QED
    BY <1>2, <1>8 DEF Legal

LEMMA HandleFailureIInv ==
  ASSUME IInv, NEW p \in Callers, HandleFailure(p)
  PROVE  IInv' /\ Legal
  <1>1. tx = p
    BY DEF IInv, CallOk, HandleFailure, Ended
  <1> QED
    BY <1>1, RollbackIInv DEF HandleFailure

\* BEGIN of a claim or a submission.
LEMMA BeginClaimIInv ==
  ASSUME IInv, NEW p \in Callers, NEW kind \in {"claim", "submit"}, NEW t \in Tasks,
         NEW r \in Runs, NEW o \in Workflow!Owners, BeginClaim(p, kind, t, r, o)
  PROVE  IInv' /\ Legal
  <1> DEFINE c == ReadCall(kind, t, r, o)
  <1>1. /\ tx # p /\ p # None /\ Autocommit /\ UNCHANGED <<runs, tasks, approvals>>
        /\ Workflow!OwnerIdentityOk(r, o) /\ Workflow!AgentMatchesAssignment(t, o)
        /\ BeginTransaction(p, c)
    BY NoneOpen DEF BeginClaim
  <1>2. CASE tx # None
    <2>1. tx' = tx /\ End(p, "busy")
      BY <1>1, <1>2 DEF BeginTransaction
    <2> QED
      BY <1>1, <2>1, EndIInv DEF Ended
  <1>3. CASE tx = None
    <2>1. tx' = p /\ calls' = [calls EXCEPT ![p] = c]
      BY <1>1, <1>3 DEF BeginTransaction
    <2>2. /\ c \in Call /\ c.pc = "read" /\ c.kind = kind /\ c.task = t
          /\ c.run = r /\ c.owner = o /\ c.current = tasks[t]
      BY ReadType DEF IInv
    <2> HIDE DEF c
    <2>3. /\ calls' \in [Callers -> Call] /\ \A q \in Callers \ {p} : calls'[q] = calls[q]
          /\ calls'[p] = c
      BY <2>1, <2>2, Types DEF IInv
    <2>4. TypeOK /\ SavedOk /\ BaseOk /\ TransactionOk /\ saved' = saved
      BY <1>1, <2>1 DEF IInv, Autocommit
    <2>5. saved = Visible
      BY <1>3, <2>4 DEF TransactionOk
    <2>6. BaseTasks' = BaseTasks
      BY <1>1, <1>3, <2>1, <2>2, <2>3 DEF BaseTasks, UnderDecision
    <2>7. SavedOk' /\ BaseOk'
      BY <2>4, <2>6, StillBase
    <2>8. TypeOK'
      BY <1>1, <2>1, <2>2, <2>3, <2>4 DEF TypeOK, Workflow!TypeOK, Committed!TypeOK, Ended
    <2>9. TransactionOk'
      BY <1>1, <2>1, <2>2, <2>3, <2>4, <2>5, <2>6 DEF TransactionOk, Visible
    <2>10. CallOk(p)'
      <3>1. ClaimOk(calls[p])'
        BY <1>1, <2>2, <2>3 DEF ClaimOk, SameButExecution, Workflow!AgentMatchesAssignment
      <3> QED
        BY <2>1, <2>2, <2>3, <3>1 DEF CallOk
    <2>11. \A q \in Callers \ {p} : CallOk(q)'
      BY <1>3, <2>1, <2>3, Others
    <2> QED
      BY <2>4, <2>7, <2>8, <2>9, <2>10, <2>11, NothingCommitted DEF IInv
  <1> QED
    BY <1>2, <1>3

-----------------------------------------------------------------------------
(* Claims, submissions and plans are committed.                            *)

\* With no decision under way the base is what is seen.
LEMMA SeenBase ==
  ASSUME IInv, tx = None \/ calls[tx].kind # "decide"
  PROVE  /\ BaseTasks = tasks /\ saved.runs = runs /\ saved.approvals = approvals
         /\ tx' = None /\ tasks' \in [Tasks -> Workflow!Task] => BaseTasks' = tasks'
  BY Types DEF IInv, TransactionOk, Visible, BaseTasks, UnderDecision

LEMMA FinishClaimIInv ==
  ASSUME IInv, NEW p \in Callers, FinishClaim(p)
  PROVE  IInv' /\ Legal
  <1> DEFINE c == calls[p]
  <1>1. /\ c.kind = "claim" /\ c.pc = "swapped" /\ Autocommit /\ TypeOK
        /\ tx = p /\ c.run \in Runs
    BY DEF IInv, CallOk, ClaimOk, FinishClaim, Ended
  <1>2. CASE /\ RunMayStart(c.run)
             /\ runs' = [runs EXCEPT ![c.run] = Workflow!RunAfterClaim(@)]
             /\ Commit(p) /\ UNCHANGED <<tasks, approvals>>
    <2>1. tx' = None /\ End(p, "ok") /\ saved' = Visible'
      BY <1>1, <1>2 DEF Commit, Autocommit
    <2>2. /\ BaseTasks = tasks /\ saved.runs = runs /\ saved.approvals = approvals
          /\ BaseTasks' = tasks' /\ tasks' \in [Tasks -> Workflow!Task]
      BY <1>1, <1>2, <2>1, SeenBase, Types
    <2>3. /\ runs[c.run] \in Workflow!Run
          /\ Workflow!RunAfterClaim(runs[c.run]) \in Workflow!Run
          /\ \/ Workflow!RunAfterClaim(runs[c.run]) = runs[c.run]
             \/ /\ runs[c.run].status = "planned"
                /\ Workflow!RunAfterClaim(runs[c.run]).status = "running"
      <3>1. runs[c.run] \in Workflow!Run
        BY <1>1, Types
      <3> QED
        BY <3>1 DEF Workflow!RunAfterClaim, Workflow!Run, Workflow!RunStatuses
    <2>4. QuietBase
      <3>1. saved'.approvals = saved.approvals /\ saved'.runs = runs'
        BY <1>2, <2>1, <2>2 DEF Visible
      <3>2. \A t \in Tasks : QuietRow(BaseTasks[t], BaseTasks'[t])
        BY <1>2, <2>2 DEF QuietRow
      <3>3. runs' \in [Runs -> Workflow!Run]
        BY <1>1, <1>2, <2>3, Types
      <3>4. \A r \in Runs : \/ runs'[r] = runs[r]
                            \/ runs[r].status = "planned" /\ runs'[r].status = "running"
        BY <1>1, <1>2, <2>3, Types
      <3>5. DOMAIN BaseTasks' = Tasks
        BY DEF BaseTasks
      <3> QED
        BY <2>2, <3>1, <3>2, <3>3, <3>4, <3>5 DEF QuietBase
    <2>5. BaseOk' /\ \A t \in Tasks : Kept(BaseTasks[t], BaseTasks'[t])
      BY <2>4, QuietStep DEF IInv
    <2>6. Legal
      BY <2>1, <2>2, <2>4, <2>5, QuietLegal DEF Visible
    <2>7. calls' \in [Callers -> Call] /\ \A q \in Callers : CallOk(q)'
      BY <1>1, <2>1, EndOfTransaction DEF Ended
    <2> QED
      BY <1>1, <2>1, <2>2, <2>5, <2>6, <2>7, CommittedIInv
  <1>3. CASE Rollback(p)
    BY <1>1, <1>3, RollbackIInv
  <1> QED
    BY <1>2, <1>3 DEF FinishClaim

\* A step that commits a whole step of the workflow.
LEMMA WholeIInv ==
  ASSUME IInv, Base!Next, tx' = None, Autocommit, BaseTasks' = tasks',
         calls' \in [Callers -> Call], \A p \in Callers : CallOk(p)'
  PROVE  IInv' /\ Legal
  <1>1. BaseOk'
    BY WholeStep DEF IInv
  <1>2. tasks' \in [Tasks -> Workflow!Task]
    BY <1>1, SameRows DEF BaseOk, Base!IInv, Base!TypeOK
  <1>3. saved'.tasks = BaseTasks'
    BY DEF Autocommit, Visible
  <1> QED
    BY <1>1, <1>2, <1>3, CommittedIInv, WholeLegal

LEMMA PlanIInv ==
  ASSUME IInv, Plan
  PROVE  IInv' /\ Legal
  <1>1. tx = None /\ tx' = None /\ calls' = calls /\ Autocommit /\ Workflow!PlanStep
    BY DEF Plan
  <1>2. BaseTasks = tasks /\ saved.runs = runs /\ saved.approvals = approvals
    BY <1>1, SeenBase
  <1>3. saved'.runs = runs' /\ saved'.tasks = tasks' /\ saved'.approvals = approvals'
    BY <1>1 DEF Autocommit, Visible
  <1>4. PICK r \in Runs, chosen \in SUBSET Tasks : \E roleOf \in [chosen -> Roles] :
          Workflow!CreateProjectManagerPlan(r, chosen, roleOf)
    BY <1>1 DEF Workflow!PlanStep
  <1>5. PICK roleOf \in [chosen -> Roles] : Workflow!CreateProjectManagerPlan(r, chosen, roleOf)
    BY <1>4
  <1>6. BaseTasks' = tasks'
    BY <1>1, <1>5 DEF Workflow!CreateProjectManagerPlan, BaseTasks, UnderDecision
  <1>7. Base!CreateProjectManagerPlan(r, chosen, roleOf)
    BY <1>2, <1>3, <1>5, <1>6 DEF Workflow!CreateProjectManagerPlan,
       Base!CreateProjectManagerPlan, Workflow!NoRun, Base!NoRun, Workflow!NoTask, Base!NoTask
  <1>8. Base!Next
    BY <1>7 DEF Base!Next, Base!PlanStep
  <1>9. \A p \in Callers : CallOk(p)'
    <2>1. \A p \in Callers : CallOk(p) /\ p # None
      BY CallersAssumption DEF IInv
    <2> QED
      BY <1>1, <2>1 DEF CallOk
  <1>10. calls' \in [Callers -> Call]
    BY <1>1, Types DEF IInv
  <1> QED
    BY <1>1, <1>6, <1>8, <1>9, <1>10, WholeIInv

LEMMA FinishSubmitIInv ==
  ASSUME IInv, NEW p \in Callers, FinishSubmit(p)
  PROVE  IInv' /\ Legal
  <1> DEFINE c == calls[p]
             t == calls[p].task
             r == calls[p].run
             o == calls[p].owner
             home == tasks[calls[p].task].run
             claimed == [runs EXCEPT ![r] = Workflow!RunAfterClaim(@)]
  <1>1. /\ c.kind = "submit" /\ c.pc = "swapped" /\ Autocommit /\ TypeOK
        /\ tx = p /\ t \in Tasks /\ r \in Runs /\ o \in Workflow!Owners
    BY DEF IInv, CallOk, ClaimOk, FinishSubmit, Ended
  <1>2. CASE Rollback(p)
    BY <1>1, <1>2, RollbackIInv
  <1>3. CASE /\ RunMayStart(r)
             /\ SubmissionAllowed(c)
             /\ Workflow!CanTransitionRun(claimed[home].status, "waiting_approval")
             /\ \E fresh \in ApprovalIds : Workflow!RecordSubmission(t, o, fresh)
             /\ tasks' = [tasks EXCEPT ![t] = Workflow!SubmittedTask(@)]
             /\ runs' = [claimed EXCEPT ![home] = Workflow!RunAfterSubmission(@)]
             /\ Commit(p)
    <2>1. tx' = None /\ End(p, "ok") /\ saved' = Visible'
      BY <1>1, <1>3 DEF Commit, Autocommit
    <2>2. tasks \in [Tasks -> Workflow!Task]
      BY <1>1, Types
    <2>3. BaseTasks = tasks /\ saved.runs = runs /\ saved.approvals = approvals
      BY <1>1, SeenBase
    <2>4. BaseTasks' = tasks'
      BY <1>3, <2>1, <2>2 DEF BaseTasks, UnderDecision
    <2>5. saved'.runs = runs' /\ saved'.tasks = tasks' /\ saved'.approvals = approvals'
      BY <2>1 DEF Visible
    <2>6. /\ tasks[t].state = "in_progress" /\ tasks[t].execution = r /\ tasks[t].owner = o
          /\ tasks[t].checkout = r
          /\ o \in Roles => o = tasks[t].role
          /\ o \in Runs => o = r
      <3>1. /\ tasks[t].state = "in_progress" /\ tasks[t].execution = r /\ tasks[t].owner = o
        BY <1>3 DEF SubmissionAllowed
      <3>2. Base!LockedRow(tasks[t]) /\ r # None
        BY <1>1, <2>3, ConstantsAssumption DEF IInv, BaseOk, Base!LockConsistent, Base!LockedRow
      <3> QED
        BY <3>1, <3>2 DEF Base!LockedRow
    <2>7. Base!ClaimAllowed(t, r, o)
      <3>1. BaseTasks[t] = tasks[t]
        BY <2>3
      <3>2. runs[r].status \in {"planned", "running"}
        BY <1>3 DEF RunMayStart
      <3> QED
        BY <2>3, <2>6, <3>1, <3>2 DEF Base!ClaimAllowed, Base!ClaimableStates, Base!OwnerIdentityOk,
           Base!AgentMatchesAssignment, Base!NoClaimConflict
    <2>8. Base!SubmittedTask(Base!ClaimedTask(tasks[t], r, o)) = Workflow!SubmittedTask(tasks[t])
      <3>1. tasks[t] \in Workflow!Task
        BY <1>1, <2>2
      <3>2. Base!ClaimedTask(tasks[t], r, o) = tasks[t]
        BY <2>6, <3>1 DEF Base!ClaimedTask, Workflow!Task
      <3> QED
        BY <3>2 DEF Base!SubmittedTask, Workflow!SubmittedTask
    <2>9. BaseTasks' = [BaseTasks EXCEPT ![t] = Base!SubmittedTask(Base!ClaimedTask(@, r, o))]
      BY <1>1, <1>3, <2>2, <2>3, <2>4, <2>8
    <2>10. PICK fresh \in ApprovalIds : Workflow!RecordSubmission(t, o, fresh)
      BY <1>3
    <2>11. Base!RecordSubmission(t, o, fresh)
      BY <2>3, <2>5, <2>10 DEF Base!RecordSubmission, Workflow!RecordSubmission,
         Base!ApprovalsOf, Workflow!ApprovalsOf, Base!RequestedApproval,
         Workflow!RequestedApproval, Base!NoApproval, Workflow!NoApproval,
         Base!ResubmittedApproval, Workflow!ResubmittedApproval
    <2>12. /\ Base!CanTransitionRun(claimed[home].status, "waiting_approval")
           /\ \A run : /\ Base!RunAfterClaim(run) = Workflow!RunAfterClaim(run)
                       /\ Base!RunAfterSubmission(run) = Workflow!RunAfterSubmission(run)
      BY <1>3 DEF Base!CanTransitionRun, Workflow!CanTransitionRun, Base!AllowedRunTargets,
         Workflow!AllowedRunTargets, Base!RunAfterClaim, Workflow!RunAfterClaim,
         Base!RunAfterSubmission, Workflow!RunAfterSubmission
    <2>13. Base!SubmitTaskOutput(t, r, o, fresh)
      <3>1. claimed = [saved.runs EXCEPT ![r] = Base!RunAfterClaim(@)]
        BY <2>3, <2>12
      <3>2. home = BaseTasks[t].run
        BY <2>3
      <3>3. saved'.runs = [claimed EXCEPT ![home] = Base!RunAfterSubmission(@)]
        BY <1>3, <2>5, <2>12
      <3> HIDE DEF claimed, home
      <3> QED
        BY <2>7, <2>9, <2>11, <2>12, <3>1, <3>2, <3>3 DEF Base!SubmitTaskOutput
    <2>14. Base!Next
      BY <1>1, <2>13, SameRows DEF Base!Next, Base!SubmitStep
    <2>15. calls' \in [Callers -> Call] /\ \A q \in Callers : CallOk(q)'
      BY <1>1, <2>1, EndOfTransaction DEF Ended
    <2> QED
      BY <1>1, <2>1, <2>4, <2>14, <2>15, WholeIInv
  <1> QED
    BY <1>2, <1>3 DEF FinishSubmit

-----------------------------------------------------------------------------
(* Decisions.                                                              *)

LEMMA BeginDecideIInv ==
  ASSUME IInv, NEW p \in Callers, NEW t \in Tasks, NEW decision \in Workflow!Decisions,
         NEW u \in Users, BeginDecide(p, t, decision, u)
  PROVE  IInv' /\ Legal
  <1> DEFINE e == EndedCall("decided")
             c == [e EXCEPT !.kind = "decide", !.task = t, !.decision = decision]
  <1>1. /\ tx # p /\ p # None /\ Autocommit /\ UNCHANGED <<runs, tasks>>
        /\ tasks[t].state = "waiting_approval" /\ BeginTransaction(p, c)
    BY NoneOpen DEF BeginDecide
  <1>2. PICK a \in ApprovalIds :
          /\ Workflow!ApprovalsOf(t) = {a}
          /\ approvals[a].status \in Workflow!UnresolvedStatuses
          /\ approvals' = IF tx = None
                          THEN [approvals EXCEPT ![a] = Workflow!DecidedApproval(@, decision, u)]
                          ELSE approvals
    BY DEF BeginDecide
  <1>3. CASE tx # None
    <2>1. tx' = tx /\ End(p, "busy")
      BY <1>1, <1>3 DEF BeginTransaction
    <2> QED
      BY <1>1, <1>2, <1>3, <2>1, EndIInv DEF Ended
  <1>4. CASE tx = None
    <2>1. tx' = p /\ calls' = [calls EXCEPT ![p] = c]
      BY <1>1, <1>4 DEF BeginTransaction
    <2>2. e \in Call
      BY EndedType DEF Underway
    <2>3. /\ c \in Call /\ c.pc = "decided" /\ c.kind = "decide" /\ c.task = t
          /\ c.decision = decision
      <3>1. e.pc = "decided"
        BY DEF EndedCall
      <3> HIDE DEF e
      <3> QED
        BY <2>2, <3>1 DEF Call
    <2> HIDE DEF c
    <2>4. /\ calls' \in [Callers -> Call] /\ \A q \in Callers \ {p} : calls'[q] = calls[q]
          /\ calls'[p] = c
      BY <2>1, <2>3, Types DEF IInv
    <2>5. TypeOK /\ SavedOk /\ BaseOk /\ TransactionOk /\ saved' = saved
      BY <1>1, <2>1 DEF IInv, Autocommit
    <2>6. saved.tasks = tasks /\ saved.runs = runs /\ saved.approvals = approvals
      BY <1>4, <2>5 DEF TransactionOk, Visible
    <2>7. BaseTasks' = BaseTasks
      BY <1>1, <1>4, <2>1, <2>5, <2>6 DEF BaseTasks, UnderDecision
    <2>8. SavedOk' /\ BaseOk'
      BY <2>5, <2>7, StillBase
    <2>9. approvals' \in [ApprovalIds -> Workflow!Approval]
      <3>1. Workflow!DecidedApproval(approvals[a], decision, u) \in Workflow!Approval
        <4>1. approvals[a] \in Base!Approval /\ decision \in Base!Decisions
          BY <2>5, Types, SameRows
        <4>2. Workflow!DecidedApproval(approvals[a], decision, u)
                = Base!DecidedApproval(approvals[a], decision, u)
          BY DEF Workflow!DecidedApproval, Base!DecidedApproval
        <4> QED
          BY <4>1, <4>2, Base!ApprovalRows, ConstantsAssumption, SameRows
      <3> QED
        BY <1>2, <1>4, <2>5, <3>1, Types
    <2>10. TypeOK'
      BY <1>1, <2>1, <2>3, <2>4, <2>5, <2>9, SameRows
         DEF TypeOK, Workflow!TypeOK, Committed!TypeOK, Ended
    <2>11. TransactionOk'
      BY <1>1, <2>1, <2>3, <2>4, <2>5, <2>6, <2>7 DEF TransactionOk
    <2>12. CallOk(p)'
      <3>1. \E b \in ApprovalIds, v \in Users :
              /\ {d \in ApprovalIds : saved'.approvals[d].task = c.task} = {b}
              /\ saved'.approvals[b].status \in Workflow!UnresolvedStatuses
              /\ approvals' = [saved'.approvals EXCEPT ![b] = Workflow!DecidedApproval(@, c.decision, v)]
        BY <1>2, <1>4, <2>3, <2>5, <2>6 DEF Workflow!ApprovalsOf
      <3>2. DecisionOk(calls[p])'
        BY <1>1, <2>3, <2>4, <2>5, <2>6, <3>1 DEF DecisionOk
      <3> QED
        BY <2>1, <2>3, <2>4, <3>2 DEF CallOk
    <2>13. \A q \in Callers \ {p} : CallOk(q)'
      BY <1>4, <2>1, <2>4, Others
    <2> QED
      BY <2>5, <2>8, <2>10, <2>11, <2>12, <2>13, NothingCommitted DEF IInv
  <1> QED
    BY <1>3, <1>4

LEMMA MoveTaskIInv ==
  ASSUME IInv, NEW p \in Callers, MoveTask(p)
  PROVE  IInv' /\ Legal
  <1> DEFINE c == calls[p]
  <1>1. /\ TypeOK /\ SavedOk /\ BaseOk /\ TransactionOk /\ CallOk(p)
        /\ c.pc = "decided" /\ c.kind = "decide" /\ tx = p /\ p # None
        /\ c.task \in Tasks /\ DecisionOk(c)
        /\ UNCHANGED <<runs, approvals, tx>> /\ Autocommit
    BY CallersAssumption DEF IInv, CallOk, MoveTask, Ended
  <1>2. CASE tasks' = tasks /\ Fail(p)
    BY <1>1, <1>2, FailIInv
  <1>3. CASE /\ tasks' = [tasks EXCEPT ![c.task] = Workflow!DecidedTask(@, c.decision)]
             /\ Move(p, "moved")
    <2>1. /\ calls' \in [Callers -> Call] /\ \A q \in Callers \ {p} : calls'[q] = calls[q]
          /\ calls'[p].pc = "moved" /\ calls'[p].kind = "decide" /\ calls'[p].task = c.task
          /\ calls'[p].decision = c.decision
      BY <1>1, <1>3, Moved DEF Underway
    <2>2. saved' = saved
      BY <1>1 DEF Autocommit
    <2>3. /\ c.decision \in Workflow!Decisions /\ tasks[c.task] = saved.tasks[c.task]
          /\ tasks'[c.task] = Workflow!DecidedTask(saved.tasks[c.task], c.decision)
          /\ saved.tasks[c.task].state = "waiting_approval"
      BY <1>1, <1>3, Types DEF DecisionOk
    <2>4. BaseTasks' = BaseTasks
      <3>1. \A t \in Tasks : UnderDecision(t)' <=> UnderDecision(t)
        BY <1>1, <2>1 DEF UnderDecision
      <3>2. UnderDecision(c.task)
        BY <1>1 DEF UnderDecision
      <3>3. \A t \in Tasks : ~UnderDecision(t) => tasks'[t] = tasks[t]
        BY <1>1, <1>3, <3>2, Types
      <3> QED
        BY <2>2, <3>1, <3>3 DEF BaseTasks
    <2>5. SavedOk' /\ BaseOk'
      BY <1>1, <2>2, <2>4, StillBase
    <2>6. tasks' \in [Tasks -> Workflow!Task]
      <3>1. Workflow!DecidedTask(saved.tasks[c.task], c.decision) \in Workflow!Task
        <4>1. saved.tasks[c.task] \in Workflow!Task
          BY <1>1, Types
        <4> QED
          BY <2>3, <4>1 DEF Workflow!DecidedTask, Workflow!Task, Workflow!TargetTaskState,
             Workflow!TaskStates
      <3> QED
        BY <1>1, <1>3, <2>3, <3>1, Types
    <2>7. TypeOK'
      BY <1>1, <2>1, <2>2, <2>6, SameRows
         DEF TypeOK, Workflow!TypeOK, Committed!TypeOK, Ended
    <2>8. TransactionOk'
      BY <1>1, <2>1, <2>2, <2>4 DEF TransactionOk
    <2>9. CallOk(p)'
      <3>1. DecisionOk(calls[p])'
        BY <1>1, <2>1, <2>2, <2>3 DEF DecisionOk
      <3> QED
        BY <1>1, <2>1, <3>1 DEF CallOk
    <2>10. \A q \in Callers \ {p} : CallOk(q)'
      BY <1>1, <2>1, Others
    <2> QED
      BY <2>2, <2>5, <2>7, <2>8, <2>9, <2>10, NothingCommitted DEF IInv
  <1> QED
    BY <1>2, <1>3 DEF MoveTask

LEMMA FinishDecideIInv ==
  ASSUME IInv, NEW p \in Callers, FinishDecide(p)
  PROVE  IInv' /\ Legal
  <1> DEFINE t == calls[p].task
             decision == calls[p].decision
  <1>1. /\ TypeOK /\ calls[p].pc = "moved" /\ calls[p].kind = "decide" /\ tx = p /\ p # None
        /\ t \in Tasks /\ DecisionOk(calls[p]) /\ TransactionOk
        /\ UNCHANGED <<tasks, approvals>> /\ Autocommit /\ Commit(p)
    BY CallersAssumption DEF IInv, CallOk, FinishDecide, Ended
  <1>2. tx' = None /\ End(p, "ok") /\ saved' = Visible'
    BY <1>1 DEF Commit, Autocommit
  <1>3. saved'.runs = runs' /\ saved'.tasks = tasks /\ saved'.approvals = approvals
    BY <1>1, <1>2 DEF Visible
  <1>4. /\ decision \in Workflow!Decisions
        /\ saved.tasks[t].state = "waiting_approval"
        /\ tasks[t] = Workflow!DecidedTask(saved.tasks[t], decision)
        /\ saved.runs = runs
    BY <1>1 DEF DecisionOk, TransactionOk
  <1>5. PICK a \in ApprovalIds, u \in Users :
          /\ {b \in ApprovalIds : saved.approvals[b].task = t} = {a}
          /\ saved.approvals[a].status \in Workflow!UnresolvedStatuses
          /\ approvals = [saved.approvals EXCEPT ![a] = Workflow!DecidedApproval(@, decision, u)]
    BY <1>1 DEF DecisionOk
  <1>6. /\ saved.approvals[a].task = t
        /\ approvals[a] = Workflow!DecidedApproval(saved.approvals[a], decision, u)
        /\ \A b \in ApprovalIds \ {a} : approvals[b] = saved.approvals[b]
    BY <1>1, <1>5, Types
  <1>7. /\ approvals[a].task = t /\ approvals[a].status = decision
        /\ approvals[a].run = saved.approvals[a].run
    BY <1>1, <1>6, Types DEF Workflow!DecidedApproval, Workflow!Approval
  <1>8. BaseTasks[t] = saved.tasks[t] /\ \A v \in Tasks \ {t} : BaseTasks[v] = tasks[v]
    BY <1>1 DEF BaseTasks, UnderDecision
  <1>9. BaseTasks' = tasks
    BY <1>1, <1>2, Types DEF BaseTasks, UnderDecision
  <1>10. Base!DecideTaskApproval(t, decision, u)
    <2>1. BaseTasks[t].state = "waiting_approval" /\ Base!ApprovalsOf(t) = {a}
      BY <1>4, <1>5, <1>8 DEF Base!ApprovalsOf
    <2>2. saved.approvals[a].status \in Base!UnresolvedStatuses
      BY <1>5 DEF Base!UnresolvedStatuses, Workflow!UnresolvedStatuses
    <2>3. saved'.approvals = [saved.approvals EXCEPT ![a] = Base!DecidedApproval(@, decision, u)]
      BY <1>3, <1>5 DEF Base!DecidedApproval, Workflow!DecidedApproval
    <2>4. Base!BlockingTask(saved'.approvals, t) = {}
      <3>1. \A b \in ApprovalIds \ {a} : approvals[b].task # t
        BY <1>5, <1>6
      <3>2. approvals[a].status \notin Base!UnresolvedStatuses
        BY <1>4, <1>7 DEF Base!UnresolvedStatuses, Workflow!Decisions
      <3> QED
        BY <1>3, <3>1, <3>2 DEF Base!BlockingTask
    <2>5. BaseTasks' = [BaseTasks EXCEPT ![t] = Base!DecidedTask(@, decision)]
      <3>1. Base!DecidedTask(saved.tasks[t], decision) = tasks[t]
        BY <1>4 DEF Base!DecidedTask, Workflow!DecidedTask, Base!TargetTaskState,
           Workflow!TargetTaskState
      <3> QED
        BY <1>1, <1>8, <1>9, <3>1, Types
    <2>6. Base!MoveRunAfterDecision(saved.approvals[a].run, BaseTasks', saved'.approvals)
      <3>1. PICK b \in Workflow!ApprovalsOf(t) :
              Workflow!MoveRunAfterDecision(approvals[b].run, tasks, approvals)
        BY DEF FinishDecide
      <3>2. b = a
        BY <1>5, <1>6, <3>1 DEF Workflow!ApprovalsOf
      <3>3. Workflow!MoveRunAfterDecision(saved.approvals[a].run, tasks, approvals)
        BY <1>7, <3>1, <3>2
      <3> QED
        BY <1>3, <1>4, <1>9, <3>3 DEF Base!MoveRunAfterDecision, Workflow!MoveRunAfterDecision,
           Base!RunStatusAfterDecision, Workflow!RunStatusAfterDecision, Base!CanTransitionRun,
           Workflow!CanTransitionRun, Base!AllowedRunTargets, Workflow!AllowedRunTargets,
           Base!BlockingRun, Workflow!BlockingRun, Base!UnresolvedStatuses,
           Workflow!UnresolvedStatuses, Base!RunAfterDecision, Workflow!RunAfterDecision
    <2> QED
      BY <2>1, <2>2, <2>3, <2>4, <2>5, <2>6 DEF Base!DecideTaskApproval
  <1>11. Base!Next
    BY <1>1, <1>4, <1>10, SameRows DEF Base!Next, Base!DecideStep
  <1>12. calls' \in [Callers -> Call] /\ \A q \in Callers : CallOk(q)'
    BY <1>1, <1>2, EndOfTransaction DEF Ended
  <1> QED
    BY <1>1, <1>2, <1>9, <1>11, <1>12, WholeIInv

-----------------------------------------------------------------------------
(* The theorems.                                                           *)

LEMMA InitIInv == Init => IInv
  <1> SUFFICES ASSUME Init PROVE IInv
    OBVIOUS
  <1>1. /\ runs = [r \in Runs |-> Workflow!NoRun] /\ tasks = [t \in Tasks |-> Workflow!NoTask]
        /\ approvals = [a \in ApprovalIds |-> Workflow!NoApproval]
        /\ saved = Visible /\ tx = None /\ calls = [p \in Callers |-> EndedCall("refused")]
    BY DEF Init, Workflow!Init
  <1>2. /\ saved.runs = runs /\ saved.tasks = tasks /\ saved.approvals = approvals
        /\ BaseTasks = tasks
    BY <1>1 DEF Visible, BaseTasks, UnderDecision
  <1>3. Base!Init
    BY <1>1, <1>2 DEF Base!Init, Base!NoRun, Workflow!NoRun, Base!NoTask, Workflow!NoTask,
       Base!NoApproval, Workflow!NoApproval
  <1>4. BaseOk
    BY <1>3, Base!InitIInv, Base!InitLock, ConstantsAssumption DEF BaseOk
  <1>5. SavedOk
    BY <1>2, <1>4, Transfer
  <1>6. calls \in [Callers -> Call] /\ \A p \in Callers : calls[p].pc \in Ended
    BY <1>1, EndedType DEF Ended
  <1>7. TypeOK
    BY <1>1, <1>2, <1>4, <1>6, SameRows, CallersAssumption
       DEF TypeOK, Workflow!TypeOK, Committed!TypeOK, BaseOk, Base!IInv, Base!TypeOK
  <1>8. TransactionOk
    BY <1>1, <1>2 DEF TransactionOk, Kept
  <1> QED
    BY <1>4, <1>5, <1>6, <1>7, <1>8 DEF IInv, CallOk

LEMMA NextIInv == IInv /\ [Next]_vars => IInv' /\ Legal
  <1> SUFFICES ASSUME IInv, [Next]_vars PROVE IInv' /\ Legal
    OBVIOUS
  <1>1. ASSUME NEW p \in Callers, Step(p)
        PROVE  IInv' /\ Legal
    BY <1>1, RefuseIInv, SwapIInv, RereadIInv, FinishReleaseIInv, FinishClaimIInv,
       FinishSubmitIInv, MoveTaskIInv, FinishDecideIInv, HandleFailureIInv DEF Step
  <1>2. CASE Next
    BY <1>1, <1>2, PlanIInv, BeginClaimIInv, BeginReleaseIInv, BeginDecideIInv DEF Next
  <1>3. CASE UNCHANGED vars
    <2>1. UNCHANGED <<runs, tasks, approvals, tx, calls, saved>>
      BY <1>3 DEF vars
    <2>2. BaseTasks' = BaseTasks
      BY <2>1 DEF BaseTasks, UnderDecision
    <2>3. SavedOk' /\ BaseOk'
      BY <2>1, <2>2, StillBase DEF IInv
    <2>4. TypeOK' /\ TransactionOk'
      BY <2>1, <2>2 DEF IInv, TypeOK, Workflow!TypeOK, Committed!TypeOK, TransactionOk, Visible
    <2>5. \A p \in Callers : CallOk(p)'
      BY <2>1 DEF IInv, CallOk, ClaimOk, DecisionOk
    <2> QED
      BY <2>1, <2>3, <2>4, <2>5, NothingCommitted DEF IInv
  <1> QED
    BY <1>2, <1>3

\* The inductive invariant holds throughout.
THEOREM Invariance == Spec => []IInv
  BY InitIInv, NextIInv, PTL DEF Spec

\* Tables, committed tables and calls keep values of their types, and only a
\* call under way has the transaction.
THEOREM TypeCorrect == Spec => []TypeOK
  <1>1. IInv => TypeOK
    BY DEF IInv
  <1> QED
    BY <1>1, Invariance, PTL

\* Whatever statements of how many callers run inside one another's
\* transactions, and wherever those are rolled back, the committed tables
\* agree as they do when operations run one after the other.
THEOREM CommittedAgree == Spec => []CommittedTablesAgree
  <1>1. IInv => CommittedTablesAgree
    <2> SUFFICES ASSUME IInv PROVE CommittedTablesAgree
      OBVIOUS
    <2>1. SavedOk
      BY DEF IInv
    <2>2. Committed!ApprovalAgreesWithTask
      BY <2>1 DEF SavedOk, Saved!IInv, Saved!ApprovalAgreesWithTask,
         Committed!ApprovalAgreesWithTask, Saved!StateUnderReview, Committed!StateUnderReview,
         Saved!TargetTaskState, Committed!TargetTaskState, Saved!UnresolvedStatuses,
         Committed!UnresolvedStatuses
    <2>3. Committed!RunWaitsForItsApprovals
      BY <2>1 DEF SavedOk, Saved!IInv, Saved!RunWaitsForItsApprovals,
         Committed!RunWaitsForItsApprovals, Saved!BlockingRun, Committed!BlockingRun,
         Saved!UnresolvedStatuses, Committed!UnresolvedStatuses
    <2>4. Committed!RunOutcomeFollowsTasks
      BY <2>1 DEF SavedOk, Saved!IInv, Saved!RunOutcomeFollowsTasks,
         Committed!RunOutcomeFollowsTasks
    <2>5. Committed!LockConsistent
      BY <2>1 DEF SavedOk, Saved!LockConsistent, Committed!LockConsistent
    <2> QED
      BY <2>2, <2>3, <2>4, <2>5 DEF CommittedTablesAgree
  <1> QED
    BY <1>1, Invariance, PTL

\* From one commit to the next no checkout changes hands, nothing settled is
\* rewritten and the approval gate is kept, although what is committed at once
\* may be the work of several overlapping calls.
THEOREM StepsAreLegal == Spec => CommittedStepsAreLegal
  <1>1. IInv /\ [Next]_vars =>
          [\A t \in Tasks : saved.tasks[t].checkout # None =>
             /\ (saved.tasks)'[t].checkout = saved.tasks[t].checkout
             /\ (saved.tasks)'[t].owner = saved.tasks[t].owner]_(Committed!vars)
    BY NextIInv DEF Legal
  <1>2. IInv /\ [Next]_vars =>
          [/\ \A r \in Runs : saved.runs[r].status \in {"done", "failed"} =>
                (saved.runs)'[r] = saved.runs[r]
           /\ \A t \in Tasks : saved.tasks[t].state \in {"done", "blocked"} =>
                (saved.tasks)'[t] = saved.tasks[t]
           /\ \A a \in ApprovalIds : saved.approvals[a].status \in {"approved", "rejected"} =>
                (saved.approvals)'[a] = saved.approvals[a]]_(Committed!vars)
    BY NextIInv DEF Legal
  <1>3. IInv /\ [Next]_vars =>
          [/\ \A t \in Tasks :
                saved.tasks[t].state = "waiting_approval" /\ (saved.tasks)'[t].state # "waiting_approval" =>
                  \E a \in ApprovalIds :
                    /\ saved.approvals[a].task = t
                    /\ saved.approvals[a].status \in Committed!UnresolvedStatuses
                    /\ (saved.approvals)'[a].status \in Committed!Decisions
                    /\ (saved.approvals)'[a].decidedBy \in Users
           /\ \A r \in Runs :
                saved.runs[r].status = "waiting_approval" /\ (saved.runs)'[r].status # "waiting_approval" =>
                  \A a \in ApprovalIds :
                    (saved.approvals)'[a].run = r =>
                      (saved.approvals)'[a].status \notin Committed!UnresolvedStatuses]_(Committed!vars)
    <2>1. /\ Committed!UnresolvedStatuses = Workflow!UnresolvedStatuses
          /\ Committed!Decisions = Workflow!Decisions
      BY DEF Committed!UnresolvedStatuses, Workflow!UnresolvedStatuses, Committed!Decisions,
         Workflow!Decisions
    <2> QED
      BY <2>1, NextIInv DEF Legal
  <1>4. Spec => Committed!OwnershipIsPermanent
    BY <1>1, Invariance, PTL DEF Spec, Committed!OwnershipIsPermanent
  <1>5. Spec => Committed!SettledStaysSettled
    BY <1>2, Invariance, PTL DEF Spec, Committed!SettledStaysSettled
  <1>6. Spec => Committed!GateNeverBypassed
    BY <1>3, Invariance, PTL DEF Spec, Committed!GateNeverBypassed
  <1> QED
    BY <1>4, <1>5, <1>6 DEF CommittedStepsAreLegal

-----------------------------------------------------------------------------
(* What is answered with success.                                          *)

\* A step of p touches no other call.
LEMMA OthersStay ==
  ASSUME TypeOK, NEW p \in Callers, Step(p)
  PROVE  \A q \in Callers \ {p} : calls'[q] = calls[q]
  <1>1. calls \in [Callers -> Call]
    BY Types
  <1> QED
    BY <1>1 DEF Step, Refuse, Swap, Reread, FinishRelease, FinishClaim, FinishSubmit, MoveTask,
       FinishDecide, HandleFailure, Fail, Move, End, Commit, Rollback

\* Only the last step of a call answers it with success.
LEMMA SuccessComesLast ==
  ASSUME TypeOK, NEW p \in Callers, Step(p), calls'[p].pc = "ok"
  PROVE  FinishRelease(p) \/ FinishClaim(p) \/ FinishSubmit(p) \/ FinishDecide(p)
  <1>1. \A pc \in Underway : Move(p, pc) => calls'[p].pc = pc
    BY Moved
  <1>2. \A outcome \in Ended : End(p, outcome) => calls'[p].pc = outcome
    BY EndsCall
  <1>3. ~Move(p, "failed") /\ ~Move(p, "swapped") /\ ~Move(p, "lost") /\ ~Move(p, "moved")
    BY <1>1 DEF Underway
  <1>4. ~End(p, "refused")
    BY <1>2 DEF Ended
  <1>5. ~Fail(p) /\ ~Rollback(p)
    BY <1>3, <1>4 DEF Fail, Rollback
  <1>6. ~Refuse(p) /\ ~Swap(p) /\ ~MoveTask(p) /\ ~HandleFailure(p)
    BY <1>3, <1>5 DEF Refuse, Swap, MoveTask, HandleFailure
  <1>7. ~Reread(p)
    <2> SUFFICES ASSUME Reread(p) PROVE FALSE
      OBVIOUS
    <2> DEFINE again == [calls[p] EXCEPT !.current = tasks[calls[p].task], !.pc = "read"]
    <2>1. calls' = [calls EXCEPT ![p] = again]
      BY <1>3, <1>5 DEF Reread
    <2>2. calls \in [Callers -> Call] /\ calls[p] \in Call
      BY Types
    <2>3. again.pc = "read"
      BY <2>2 DEF Call
    <2> HIDE DEF again
    <2> QED
      BY <2>1, <2>2, <2>3
  <1> QED
    BY <1>6, <1>7 DEF Step

LEMMA AnsweredStep ==
  ASSUME IInv, [Next]_vars, NEW p \in Callers, calls[p].pc \notin Ended, calls'[p].pc = "ok"
  PROVE  LET c == calls[p]
             task == saved'.tasks[c.task]
         IN /\ c.kind = "claim" =>
                 task.state = "in_progress" /\ task.checkout = c.run /\ task.owner = c.owner
            /\ c.kind = "submit" =>
                 task.state = "waiting_approval" /\ task.checkout = c.run /\ task.owner = c.owner
            /\ c.kind = "decide" => task.state = Workflow!TargetTaskState(c.decision)
  <1> DEFINE c == calls[p]
             t == calls[p].task
  <1>1. /\ TypeOK /\ CallOk(p) /\ calls \in [Callers -> Call]
        /\ tasks \in [Tasks -> Workflow!Task] /\ saved.tasks \in [Tasks -> Workflow!Task]
    BY Types DEF IInv
  <1>2. Step(p)
    <2>1. calls'[p] # calls[p]
      BY DEF Ended
    <2>2. \E q \in Callers : Step(q) \/ (calls[q].pc \in Ended /\ \E call : calls' = [calls EXCEPT ![q] = call])
      <3>1. ~UNCHANGED vars /\ ~Plan
        BY <2>1 DEF vars, Plan
      <3>2. ASSUME NEW q \in Callers, NEW kind, NEW v, NEW r, NEW o, BeginClaim(q, kind, v, r, o)
            PROVE  calls[q].pc \in Ended /\ \E call : calls' = [calls EXCEPT ![q] = call]
        BY <3>2 DEF BeginClaim, BeginTransaction, End
      <3>3. ASSUME NEW q \in Callers, NEW v, NEW r, NEW o, BeginRelease(q, v, r, o)
            PROVE  calls[q].pc \in Ended /\ \E call : calls' = [calls EXCEPT ![q] = call]
        BY <3>3 DEF BeginRelease
      <3>4. ASSUME NEW q \in Callers, NEW v, NEW d, NEW u, BeginDecide(q, v, d, u)
            PROVE  calls[q].pc \in Ended /\ \E call : calls' = [calls EXCEPT ![q] = call]
        BY <3>4 DEF BeginDecide, BeginTransaction, End
      <3> QED
        BY <3>1, <3>2, <3>3, <3>4 DEF Next
    <2> QED
      BY <1>1, <2>1, <2>2, OthersStay
  <1>3. FinishRelease(p) \/ FinishClaim(p) \/ FinishSubmit(p) \/ FinishDecide(p)
    BY <1>1, <1>2, SuccessComesLast
  <1>4. ~Rollback(p)
    BY <1>1, EndsCall DEF Rollback, Ended
  <1>5. CASE FinishRelease(p)
    BY <1>5 DEF FinishRelease
  <1>6. CASE FinishClaim(p)
    <2>1. /\ c.kind = "claim" /\ tasks' = tasks /\ tx' = None /\ Autocommit
      BY <1>4, <1>6 DEF FinishClaim, Commit
    <2>2. saved'.tasks = tasks
      BY <2>1 DEF Autocommit, Visible
    <2>3. tasks[t].state = "in_progress" /\ tasks[t].checkout = c.run /\ tasks[t].owner = c.owner
      BY <1>1, <1>6, <2>1 DEF CallOk, ClaimOk, FinishClaim
    <2> QED
      BY <2>1, <2>2, <2>3
  <1>7. CASE FinishSubmit(p)
    <2>1. /\ c.kind = "submit" /\ tx' = None /\ Autocommit
          /\ tasks' = [tasks EXCEPT ![t] = Workflow!SubmittedTask(@)]
      BY <1>4, <1>7 DEF FinishSubmit, Commit
    <2>2. saved'.tasks = tasks'
      BY <2>1 DEF Autocommit, Visible
    <2>3. t \in Tasks /\ tasks[t].checkout = c.run /\ tasks[t].owner = c.owner
      BY <1>1, <1>7, <2>1 DEF CallOk, ClaimOk, FinishSubmit
    <2>4. tasks'[t] = Workflow!SubmittedTask(tasks[t]) /\ tasks[t] \in Workflow!Task
      BY <1>1, <2>1, <2>3
    <2>5. tasks'[t].state = "waiting_approval" /\ tasks'[t].checkout = c.run /\ tasks'[t].owner = c.owner
      BY <2>3, <2>4 DEF Workflow!SubmittedTask, Workflow!Task
    <2> QED
      BY <2>1, <2>2, <2>5
  <1>8. CASE FinishDecide(p)
    <2>1. /\ c.kind = "decide" /\ c.pc = "moved" /\ tx' = None /\ Autocommit /\ tasks' = tasks
      BY <1>1, <1>8 DEF FinishDecide, Commit, CallOk
    <2>2. saved'.tasks = tasks
      BY <2>1 DEF Autocommit, Visible
    <2>3. t \in Tasks /\ tasks[t] = Workflow!DecidedTask(saved.tasks[t], c.decision)
      BY <1>1, <2>1 DEF CallOk, DecisionOk
    <2>4. tasks[t].state = Workflow!TargetTaskState(c.decision)
      BY <1>1, <2>3 DEF Workflow!DecidedTask, Workflow!Task
    <2> QED
      BY <2>1, <2>2, <2>4
  <1> QED
    BY <1>3, <1>5, <1>6, <1>7, <1>8

\* A claim, submission or decision that is answered with success is in the
\* committed tables, whatever other calls did between its awaits.
THEOREM AcknowledgedAreCommitted == Spec => AcknowledgedIsCommitted
  <1>1. ASSUME IInv, [Next]_vars
        PROVE  [\A p \in Callers : calls[p].pc \notin Ended /\ calls'[p].pc = "ok" =>
                 LET c == calls[p]
                     task == saved'.tasks[c.task]
                 IN /\ c.kind = "claim" =>
                         task.state = "in_progress" /\ task.checkout = c.run /\ task.owner = c.owner
                    /\ c.kind = "submit" =>
                         task.state = "waiting_approval" /\ task.checkout = c.run
                         /\ task.owner = c.owner
                    /\ c.kind = "decide" => task.state = Workflow!TargetTaskState(c.decision)]_vars
    BY <1>1, AnsweredStep
  <1> QED
    BY <1>1, Invariance, PTL DEF Spec, AcknowledgedIsCommitted

=============================================================================
