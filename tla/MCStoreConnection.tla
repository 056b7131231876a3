------------------------- MODULE MCStoreConnection -------------------------
(***************************************************************************)
(* Instances of StoreConnection for TLC.                                   *)
(***************************************************************************)
EXTENDS StoreConnection, TLC

\* Sound for invariants and action properties: callers, tasks, approvals and
\* roles are interchangeable; runs are not, no run is another's equal once claimed.
Symmetry ==
  Permutations(Callers) \cup Permutations(Tasks)
    \cup Permutations(ApprovalIds) \cup Permutations(Roles) \cup Permutations(Runs)

\* Of the owners only the users: a claim of another run is a conflict whoever
\* owns it.
UsersNext ==
  \/ Plan
  \/ \E p \in Callers : Step(p)
  \/ \E p \in Callers, kind \in {"claim", "submit"}, t \in Tasks, r \in Runs, o \in Users :
       BeginClaim(p, kind, t, r, o)
  \/ \E p \in Callers, t \in Tasks, r \in Runs, o \in Users : BeginRelease(p, t, r, o)
  \/ \E p \in Callers, t \in Tasks, decision \in Workflow!Decisions, u \in Users :
       BeginDecide(p, t, decision, u)

\* Liveness is checked without symmetry; the fairness is that of FairSpec.
UsersSpec == Init /\ [][UsersNext]_vars /\ Fairness

=============================================================================
