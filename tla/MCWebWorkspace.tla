--------------------------- MODULE MCWebWorkspace ---------------------------
(* A small instance of WebWorkspace for TLC.                               *)
EXTENDS WebWorkspace, TLC

CONSTANTS h1, h2, agent

HandlersOfPage == {h1, h2}

EverySender == {h1, h2, agent}

Symmetry == Permutations(Actors)

=============================================================================
