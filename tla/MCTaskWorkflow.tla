---------------------------- MODULE MCTaskWorkflow ----------------------------
(* Small instance of TaskWorkflow for TLC.                                 *)
EXTENDS TaskWorkflow, TLC

\* Ids are interchangeable: no operation distinguishes two of them.
Symmetry ==
  Permutations(Tasks) \cup Permutations(Runs) \cup Permutations(Roles)
    \cup Permutations(ApprovalIds)

=============================================================================
