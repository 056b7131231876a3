--------------------------- MODULE ApprovalGuard ---------------------------
(***************************************************************************)
(* The approval-guarded transition service on its own                      *)
(* (packages/core/src/approval-guarded-transition-service.ts): calls that  *)
(* move a task or a run, suspended at every await of the repository.       *)
(*                                                                         *)
(* A call reads its entity, then the approvals, and then swaps the state   *)
(* on the from-state alone: nothing holds the approvals still in between.  *)
(* The store calls the service inside a write transaction; here other      *)
(* calls, claims, submissions and decisions come between any two awaits.   *)
(*                                                                         *)
(* transitionTask and transitionRun are one algorithm, apart from the      *)
(* transition table that only runs have.                                   *)
(***************************************************************************)
EXTENDS WorkflowStates, Naturals

CONSTANTS
  Callers,    \* concurrent callers of the service; each makes any number of calls
  Tasks,      \* ids of tasks
  Runs,       \* ids of runs
  Approvals,  \* ids of approvals
  Moves,      \* the <<from, to>> pairs callers ask for
  None        \* no row

ASSUME ConstantsAssumption ==
  /\ Tasks \cap Runs = {}
  /\ None \notin Callers \cup Tasks \cup Runs \cup TaskStates \cup RunStatuses
  /\ Moves \subseteq (TaskStates \cup RunStatuses) \X (TaskStates \cup RunStatuses)

VARIABLES
  state,      \* state[e]: the state of task or run e
  approvals,  \* approvals[a]: the approval's status and the entities it names
  calls,      \* calls[p]: the call caller p is making, or made last
  facts,      \* facts[p]: what was true of the entity at some moment of p's call
  late        \* late[p]: approvals requested since p's call last read its entity

vars == <<state, approvals, calls, facts, late>>

-----------------------------------------------------------------------------

Entities == Tasks \cup Runs

StatesOf(e) == IF e \in Tasks THEN TaskStates ELSE RunStatuses

\* The bound of the retry loop.
Attempts == 3

\* The outcomes of a call: the record is returned, or one of the errors is
\* thrown.
Ended == {"ok", "blocked", "conflict", "invalid", "not_found"}

Call == [pc : {"read", "listed", "lost"} \cup Ended,
         entity : Entities \cup {None}, from : TaskStates \cup RunStatuses \cup {None},
         to : TaskStates \cup RunStatuses \cup {None},
         current : TaskStates \cup RunStatuses \cup {None},
         blocking : SUBSET Approvals, attempt : 0..Attempts]

Approval == [status : ApprovalStatuses \cup {None}, about : SUBSET Entities]

\* States are checked against the entity's own list; runs also against the
\* transition table.
ValidMove(e, from, to) ==
  /\ from \in StatesOf(e) /\ to \in StatesOf(e)
  /\ e \in Runs => CanTransitionRun(from, to)

IsGuarded(from, to) == from = "waiting_approval" /\ to # "waiting_approval"

\* The approvals of a table that name the entity and are not resolved.
Unresolved(table, e) ==
  {a \in Approvals : e \in table[a].about /\ table[a].status \in UnresolvedStatuses}

-----------------------------------------------------------------------------

EndedCall(outcome) ==
  [pc |-> outcome, entity |-> None, from |-> None, to |-> None, current |-> None,
   blocking |-> {}, attempt |-> 0]

\* Some of the ids name no row.
Init ==
  /\ \E rows \in SUBSET Entities :
       state = [e \in Entities |->
                  IF e \notin rows THEN None ELSE IF e \in Tasks THEN "todo" ELSE "planned"]
  /\ approvals = [a \in Approvals |-> [status |-> None, about |-> {}]]
  /\ calls = [p \in Callers |-> EndedCall("not_found")]
  /\ facts = [p \in Callers |-> {}]
  /\ late = [p \in Callers |-> {}]

Active(p) == calls[p].pc \notin Ended

\* An outcome keeps what was asked for; the rest of the call is gone.
End(p, outcome) ==
  calls' = [calls EXCEPT ![p].pc = outcome, ![p].current = None,
                         ![p].blocking = {}, ![p].attempt = 0]

\* What a table and a state tell about the call's entity.
FactsOf(call, st, table) ==
  {f \in {"clear", "unresolved", "elsewhere"} :
     CASE f = "clear" -> Unresolved(table, call.entity) = {}
       [] f = "unresolved" -> Unresolved(table, call.entity) # {}
       [] f = "elsewhere" -> st[call.entity] # call.from}

\* The history of every call in progress, after a step that requested the
\* given approvals; reader is the caller that has just read its entity.
Observe(requested, reader) ==
  /\ facts' = [p \in Callers |->
                 IF Active(p) THEN facts[p] \cup FactsOf(calls[p], state', approvals')
                 ELSE facts[p]]
  /\ late' = [p \in Callers |-> IF p = reader THEN {}
                                ELSE IF Active(p) THEN late[p] \cup requested ELSE late[p]]

\* The input is normalised and the entity read.
Begin(p, e, from, to) ==
  /\ ~Active(p)
  /\ calls' = [calls EXCEPT ![p] =
       IF ~ValidMove(e, from, to) THEN EndedCall("invalid")
       ELSE IF state[e] = None THEN EndedCall("not_found")
       ELSE [pc |-> "read", entity |-> e, from |-> from, to |-> to,
             current |-> state[e], blocking |-> {}, attempt |-> 0]]
  /\ facts' = [facts EXCEPT ![p] =
                 IF Active(p)' THEN FactsOf(calls'[p], state, approvals) ELSE {}]
  /\ late' = [late EXCEPT ![p] = {}]
  /\ UNCHANGED <<state, approvals>>

\* The state read is not the one the call starts from.
Conflict(p) ==
  /\ calls[p].pc = "read"
  /\ calls[p].current # calls[p].from
  /\ End(p, "conflict")
  /\ UNCHANGED <<state, approvals>>
  /\ Observe({}, None)

\* The entity is where the call wants it.
Already(p) ==
  /\ calls[p].pc = "read"
  /\ calls[p].current = calls[p].from
  /\ calls[p].from = calls[p].to
  /\ End(p, "ok")
  /\ UNCHANGED <<state, approvals>>
  /\ Observe({}, None)

\* Mutant: output that was resubmitted needs no second approval.
ListPending(p) ==
  /\ calls[p].pc = "read"
  /\ calls[p].current = calls[p].from
  /\ calls[p].from # calls[p].to
  /\ calls' = [calls EXCEPT ![p].pc = "listed", ![p].blocking =
                 {a \in Unresolved(approvals, calls[p].entity) :
                    approvals[a].status = "pending"}]
  /\ UNCHANGED <<state, approvals>>
  /\ Observe({}, None)

\* The approvals that name the entity are listed; only those that block a
\* guarded move matter.
List(p) ==
  /\ calls[p].pc = "read"
  /\ calls[p].current = calls[p].from
  /\ calls[p].from # calls[p].to
  /\ calls' = [calls EXCEPT ![p].pc = "listed", ![p].blocking =
                 IF IsGuarded(calls[p].from, calls[p].to)
                 THEN Unresolved(approvals, calls[p].entity) ELSE {}]
  /\ UNCHANGED <<state, approvals>>
  /\ Observe({}, None)

Blocked(p) ==
  /\ calls[p].pc = "listed"
  /\ calls[p].blocking # {}
  /\ End(p, "blocked")
  /\ UNCHANGED <<state, approvals>>
  /\ Observe({}, None)

\* One UPDATE whose WHERE names the id and the from-state.
Swap(p) ==
  LET e == calls[p].entity
  IN /\ calls[p].pc = "listed"
     /\ calls[p].blocking = {}
     /\ \/ /\ state[e] = calls[p].from
           /\ state' = [state EXCEPT ![e] = calls[p].to]
           /\ End(p, "ok")
        \/ /\ state[e] # calls[p].from
           /\ calls' = [calls EXCEPT ![p].pc = "lost", ![p].attempt = @ + 1]
           /\ UNCHANGED state
     /\ UNCHANGED approvals
     /\ Observe({}, None)

\* Mutants: the retry swaps again on the approvals it has; one attempt too
\* many; lost swaps are not counted.
SwapAgain(p) ==
  /\ calls[p].pc = "lost"
  /\ IF calls[p].attempt = Attempts \/ state[calls[p].entity] # calls[p].from
     THEN End(p, "conflict")
     ELSE calls' = [calls EXCEPT ![p].pc = "listed", ![p].current = state[calls[p].entity]]
  /\ UNCHANGED <<state, approvals>>
  /\ Observe({}, p)

RereadOnceMore(p) ==
  /\ calls[p].pc = "lost"
  /\ IF calls[p].attempt > Attempts THEN End(p, "conflict")
     ELSE calls' = [calls EXCEPT ![p].pc = "read", ![p].current = state[calls[p].entity]]
  /\ UNCHANGED <<state, approvals>>
  /\ Observe({}, p)

RereadForever(p) ==
  /\ calls[p].pc = "lost"
  /\ calls' = [calls EXCEPT ![p].pc = "read", ![p].current = state[calls[p].entity],
                            ![p].attempt = 0]
  /\ UNCHANGED <<state, approvals>>
  /\ Observe({}, p)

\* After a lost swap the entity is read again; the third lost swap ends the
\* call with a conflict whatever the state is now.
Reread(p) ==
  /\ calls[p].pc = "lost"
  /\ IF calls[p].attempt = Attempts THEN End(p, "conflict")
     ELSE calls' = [calls EXCEPT ![p].pc = "read", ![p].current = state[calls[p].entity]]
  /\ UNCHANGED <<state, approvals>>
  /\ Observe({}, p)

-----------------------------------------------------------------------------
(* The other writers of the same rows: claims, submitted output and        *)
(* decisions of the store.  A decision records its verdict here and leaves *)
(* the states to two calls of the service.                                 *)

Claim(t, r) ==
  /\ state[t] \in {"todo", "in_progress"}
  /\ state[r] \in {"planned", "running"}
  /\ state' = [state EXCEPT ![t] = "in_progress", ![r] = "running"]
  /\ UNCHANGED <<approvals, calls>>
  /\ Observe({}, None)

Submit(t, r, a) ==
  /\ state[t] = "in_progress"
  /\ state[r] \in RunStatuses /\ CanTransitionRun(state[r], "waiting_approval")
  /\ \/ approvals[a].status = None
     \/ approvals[a].status = "revision_requested" /\ approvals[a].about = {t, r}
  /\ approvals' = [approvals EXCEPT ![a] =
       [status |-> IF approvals[a].status = None THEN "pending" ELSE "resubmitted",
        about |-> {t, r}]]
  /\ state' = [state EXCEPT ![t] = "waiting_approval", ![r] = "waiting_approval"]
  /\ UNCHANGED calls
  /\ Observe({a}, None)

Decide(a, verdict) ==
  /\ approvals[a].status \in UnresolvedStatuses
  /\ approvals' = [approvals EXCEPT ![a].status = verdict]
  /\ UNCHANGED <<state, calls>>
  /\ Observe({}, None)

Step(p) == Conflict(p) \/ Already(p) \/ List(p) \/ Blocked(p) \/ Swap(p) \/ Reread(p)

Next ==
  \/ \E p \in Callers : Step(p)
  \/ \E p \in Callers, e \in Entities, move \in Moves : Begin(p, e, move[1], move[2])
  \/ \E t \in Tasks, r \in Runs : Claim(t, r)
  \/ \E t \in Tasks, r \in Runs, a \in Approvals : Submit(t, r, a)
  \/ \E a \in Approvals, verdict \in ApprovalStatuses \ UnresolvedStatuses :
       Decide(a, verdict)

Spec == Init /\ [][Next]_vars

\* A suspended call is resumed: the repository settles every promise.
FairSpec == Spec /\ \A p \in Callers : WF_vars(Step(p))

-----------------------------------------------------------------------------
(* Properties.                                                             *)

\* The rows and the calls hold values of their types; in particular no call
\* tries more often than the loop allows.
TypeOK ==
  /\ \A e \in Entities : state[e] \in StatesOf(e) \cup {None}
  /\ approvals \in [Approvals -> Approval]
  /\ calls \in [Callers -> Call]
  /\ facts \in [Callers -> SUBSET {"clear", "unresolved", "elsewhere"}]
  /\ late \in [Callers -> SUBSET Approvals]

\* What a call reports really was so at some moment of it: a guarded move
\* that succeeded saw every approval resolved, a blocked one saw one that was
\* not, a conflict saw the entity away from the from-state.
VerdictsAreReal ==
  \A p \in Callers :
    /\ calls[p].pc = "ok" /\ IsGuarded(calls[p].from, calls[p].to) => "clear" \in facts[p]
    /\ calls[p].pc = "blocked" => "unresolved" \in facts[p]
    /\ calls[p].pc = "conflict" => "elsewhere" \in facts[p]

\* The whole extent of the window between listing and swapping: an entity
\* leaves waiting_approval past an unresolved approval only when that approval
\* was requested after the moving call had last read the entity.  An approval
\* that was there at that time is never passed, through any retry.
OnlyLateRequestsArePassed ==
  [][\A e \in Entities :
       state[e] = "waiting_approval" /\ state'[e] # "waiting_approval" =>
         \E p \in Callers :
           /\ calls[p].entity = e /\ Active(p) /\ calls'[p].pc = "ok"
           /\ Unresolved(approvals, e) \subseteq late[p]]_vars

\* Every call returns or throws, however often its swaps are lost.
CallsReturn == \A p \in Callers : calls[p].pc = "read" ~> calls[p].pc \in Ended

=============================================================================
