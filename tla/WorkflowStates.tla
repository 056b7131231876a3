--------------------------- MODULE WorkflowStates ---------------------------
(***************************************************************************)
(* The states tasks, runs and approvals go through, and the one transition *)
(* table the code has, that of runs (packages/core/src/run-lifecycle.ts    *)
(* and the constants of the approval-guarded transition service).          *)
(***************************************************************************)

RunStatuses == {"planned", "running", "waiting_approval", "done", "failed"}

TaskStates == {"todo", "in_progress", "waiting_approval", "done", "failed",
               "blocked"}

ApprovalStatuses == {"pending", "approved", "rejected", "revision_requested",
                     "resubmitted"}

UnresolvedStatuses == {"pending", "resubmitted"}

\* Where a run may go from each status; done and failed are terminal.
AllowedRunTargets(from) ==
  CASE from = "planned" -> {"running", "waiting_approval", "failed"}
    [] from = "running" -> {"waiting_approval", "done", "failed"}
    [] from = "waiting_approval" -> {"running", "done", "failed"}
    [] OTHER -> {}

\* Mutant: an ended run is reopened by late output.
ReopeningCanTransitionRun(from, to) == TRUE

CanTransitionRun(from, to) == from = to \/ to \in AllowedRunTargets(from)

=============================================================================
