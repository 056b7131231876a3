-------------------------- MODULE MCApprovalGuard --------------------------
(* A small instance of ApprovalGuard for TLC.                              *)
EXTENDS ApprovalGuard, TLC

\* What the store asks for after a decision, one move out of waiting_approval
\* that ends the entity, one that hands it back, one that changes nothing,
\* and one the transition table of runs refuses.
MovesAsked == {<<"waiting_approval", "done">>, <<"waiting_approval", "in_progress">>,
               <<"waiting_approval", "running">>, <<"done", "in_progress">>,
               <<"running", "running">>, <<"done", "running">>}

=============================================================================
