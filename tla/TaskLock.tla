------------------------------ MODULE TaskLock ------------------------------
(***************************************************************************)
(* What checking out a task promises, without columns, transactions or     *)
(* retries: at most one holder (a run together with an owner) ever works   *)
(* on a task, it keeps the task for good, and while the task is under      *)
(* review or settled nobody works on it.  TaskClaim, the claim service     *)
(* with its compare-and-swap loop, and TaskWorkflow, the operations of the *)
(* store, are shown to implement it.                                       *)
(***************************************************************************)

CONSTANTS
  Holders,  \* pairs of a run and an owner that may act under it
  None

VARIABLES
  phase,     \* "open": may be worked on; "review"; "settled"
  holder,    \* who has the task checked out, or None
  executing  \* is the holder working on it

vars == <<phase, holder, executing>>

Init ==
  /\ phase = "open"
  /\ holder = None
  /\ executing = FALSE

\* The first to come takes the task; later only the holder gets it.
Acquire(h) ==
  /\ phase = "open"
  /\ holder \in {None, h}
  /\ holder' = h
  /\ executing' = TRUE
  /\ UNCHANGED phase

\* The holder pauses; the task stays its own.
Pause(h) ==
  /\ holder = h
  /\ executing' = FALSE
  /\ UNCHANGED <<phase, holder>>

\* The holder, or the first to come, hands in the output.
HandIn(h) ==
  /\ phase = "open"
  /\ holder \in {None, h}
  /\ phase' = "review"
  /\ holder' = h
  /\ executing' = FALSE

\* The review ends: the task is handed back to its holder or settled.
Review ==
  /\ phase = "review"
  /\ phase' \in {"open", "settled"}
  /\ UNCHANGED <<holder, executing>>

Next ==
  \/ \E h \in Holders : Acquire(h) \/ Pause(h) \/ HandIn(h)
  \/ Review

Spec == Init /\ [][Next]_vars

=============================================================================
