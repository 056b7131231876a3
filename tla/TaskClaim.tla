----------------------------- MODULE TaskClaim -----------------------------
(***************************************************************************)
(* The task claim service (packages/core/src/task-claim-service.ts): calls *)
(* that claim or release one task by an optimistic compare-and-swap on the *)
(* columns of its row.  A call is suspended at every await, so that other  *)
(* calls, and the writes that submit and decide the task's output, come    *)
(* between its read and its swap.  Calls on different tasks share nothing: *)
(* one row is enough.                                                      *)
(*                                                                         *)
(* The repository is the one apps/web/src/persistence.ts passes in: a read *)
(* and a swap are one SQL statement each.                                  *)
(***************************************************************************)
EXTENDS Naturals

CONSTANTS
  Callers,  \* concurrent callers of the service; each makes any number of calls
  Runs,     \* ids of runs
  Actors,   \* ids of agents and users
  Stamps,   \* values of lock_acquired_at
  None      \* SQL NULL

ASSUME ConstantsAssumption ==
  /\ Runs \cap Actors = {}
  /\ None \notin Callers \cup Runs \cup Actors \cup Stamps \cup (Runs \X (Actors \cup Runs))

VARIABLES
  row,    \* the claim columns of the task
  calls,  \* calls[p]: the call caller p is making, or made last
  met,    \* met[p]: during p's call the row was what the call asks for
  moved   \* moved[p]: how often the row changed under p's call, up to Attempts

vars == <<row, calls, met, moved>>

-----------------------------------------------------------------------------

Owners == Actors \cup Runs

States == {"todo", "in_progress", "waiting_approval", "done", "failed", "blocked"}

Row == [state : States, owner : Owners \cup {None}, acquired : Stamps \cup {None},
        checkout : Runs \cup {None}, execution : Runs \cup {None}]

\* The bound of the retry loop.
Attempts == 3

Ended == {"ok", "refused", "contended"}

Call == [pc : {"read", "lost"} \cup Ended, kind : {"claim", "release", "none"},
         run : Runs \cup {None}, owner : Owners \cup {None},
         current : Row, next : Row, attempt : 0..Attempts]

\* A lock of a run carries the run's own id.
OwnerIdentityOk(r, o) == o \in Runs => o = r

Claimable(task) == task.state \in {"todo", "in_progress"}

\* Mutant: the owner of a released task is not looked at.
HeldConflict(task, r, o) ==
  /\ task.execution \in {None, r}
  /\ task.checkout \in {None, r}
  /\ task.execution # None => task.owner \in {None, o}

\* No other run executes the task or checked it out, no other owner has it.
NoConflict(task, r, o) ==
  /\ task.execution \in {None, r}
  /\ task.checkout \in {None, r}
  /\ task.owner \in {None, o}

Refuses(task, call) ==
  \/ call.kind = "claim" /\ ~Claimable(task)
  \/ ~NoConflict(task, call.run, call.owner)

\* Mutant: a claim refreshes lock_acquired_at.
RestampedSnapshot(task, call, now) ==
  IF call.kind = "release" THEN [task EXCEPT !.execution = None]
  ELSE [state |-> "in_progress", owner |-> call.owner, acquired |-> now,
        checkout |-> call.run, execution |-> call.run]

\* The row a call wants, given the row it has read and the time to record
\* (the caller's claimedAt, or the clock when the snapshot is built).
NextSnapshot(task, call, now) ==
  IF call.kind = "release" THEN [task EXCEPT !.execution = None]
  ELSE [state |-> "in_progress", owner |-> call.owner,
        acquired |-> IF task.acquired = None THEN now ELSE task.acquired,
        checkout |-> call.run, execution |-> call.run]

\* The row is what the call asks for.
Meets(task, call) ==
  IF call.kind = "release" THEN task.execution = None
  ELSE /\ task.state = "in_progress"
       /\ task.owner = call.owner
       /\ task.checkout = call.run
       /\ task.execution = call.run

-----------------------------------------------------------------------------

Unclaimed == [state |-> "todo", owner |-> None, acquired |-> None,
              checkout |-> None, execution |-> None]

\* A call that has ended with the given outcome; a caller that has made no
\* call yet looks like one whose call was refused.
EndedCall(outcome) ==
  [pc |-> outcome, kind |-> "none", run |-> None, owner |-> None,
   current |-> Unclaimed, next |-> Unclaimed, attempt |-> 0]

Init ==
  /\ row = Unclaimed
  /\ calls = [p \in Callers |-> EndedCall("refused")]
  /\ met = [p \in Callers |-> FALSE]
  /\ moved = [p \in Callers |-> 0]

End(p, outcome) == calls' = [calls EXCEPT ![p] = EndedCall(outcome)]

\* What the history variables record of a step by p, or by another writer of
\* the row (None): p's own swap is not a change under p's call.
Record(p) ==
  LET Active(q) == calls[q].pc \notin Ended
  IN /\ met' = [q \in Callers |-> met[q] \/ (Active(q) /\ Meets(row', calls[q]))]
     /\ moved' = [q \in Callers |->
                    IF Active(q) /\ q # p /\ row' # row /\ moved[q] < Attempts
                    THEN moved[q] + 1 ELSE moved[q]]

\* A call is validated and reads the row.
Begin(p, kind, r, o) ==
  /\ calls[p].pc \in Ended
  /\ OwnerIdentityOk(r, o)
  /\ calls' = [calls EXCEPT ![p] =
                 [pc |-> "read", kind |-> kind, run |-> r, owner |-> o,
                  current |-> row, next |-> row, attempt |-> 0]]
  /\ met' = [met EXCEPT ![p] = Meets(row, calls'[p])]
  /\ moved' = [moved EXCEPT ![p] = 0]
  /\ UNCHANGED row

\* The row read tells that the call cannot be granted.
Refuse(p) ==
  /\ calls[p].pc = "read"
  /\ Refuses(calls[p].current, calls[p])
  /\ End(p, "refused")
  /\ UNCHANGED row
  /\ Record(p)

\* The row read is what the call asks for already.
Already(p) ==
  /\ calls[p].pc = "read"
  /\ ~Refuses(calls[p].current, calls[p])
  /\ \E now \in Stamps : NextSnapshot(calls[p].current, calls[p], now) = calls[p].current
  /\ End(p, "ok")
  /\ UNCHANGED row
  /\ Record(p)

\* Mutant: one attempt too many.
MayTryOnceMore(call) == call.attempt <= Attempts

MayTry(call) == call.attempt < Attempts

\* One attempt: a single UPDATE whose WHERE names every column of the row
\* read goes through, and the call is done, or it changes nothing.
Swap(p) ==
  /\ calls[p].pc = "read"
  /\ ~Refuses(calls[p].current, calls[p])
  /\ MayTry(calls[p])
  /\ \E now \in Stamps :
       LET wanted == NextSnapshot(calls[p].current, calls[p], now)
       IN /\ wanted # calls[p].current
          /\ \/ row = calls[p].current /\ row' = wanted /\ End(p, "ok")
             \/ /\ row # calls[p].current
                /\ calls' = [calls EXCEPT ![p].pc = "lost", ![p].next = wanted,
                                          ![p].attempt = @ + 1]
                /\ UNCHANGED row
  /\ Record(p)

\* The call goes on with the given row as the row it has read.
Resume(p, task) == calls' = [calls EXCEPT ![p].current = task, ![p].pc = "read"]

\* Mutants: a lost swap is retried on the row read first; any row of the same
\* run counts as the call's own.
StaleReread(p) ==
  /\ calls[p].pc = "lost"
  /\ IF row = calls[p].next THEN End(p, "ok") ELSE Resume(p, calls[p].current)
  /\ UNCHANGED row
  /\ Record(p)

CarelessReread(p) ==
  /\ calls[p].pc = "lost"
  /\ IF row.checkout = calls[p].run THEN End(p, "ok") ELSE Resume(p, row)
  /\ UNCHANGED row
  /\ Record(p)

\* A lost swap is followed by a fresh read, which ends the call if somebody
\* else has just written what the call wanted.
Reread(p) ==
  /\ calls[p].pc = "lost"
  /\ IF row = calls[p].next THEN End(p, "ok") ELSE Resume(p, row)
  /\ UNCHANGED row
  /\ Record(p)

\* Mutant: the call starts over.
StartOver(p) ==
  /\ calls[p].pc = "read"
  /\ ~Refuses(calls[p].current, calls[p])
  /\ calls[p].attempt = Attempts
  /\ calls' = [calls EXCEPT ![p].attempt = 0]
  /\ UNCHANGED row
  /\ Record(p)

\* The last attempt was lost and the row is still not what the call wants.
GiveUp(p) ==
  /\ calls[p].pc = "read"
  /\ ~Refuses(calls[p].current, calls[p])
  /\ calls[p].attempt = Attempts
  /\ \E now \in Stamps : NextSnapshot(calls[p].current, calls[p], now) # calls[p].current
  /\ End(p, "contended")
  /\ UNCHANGED row
  /\ Record(p)

\* Other writers of the row: output submitted under run r, and a decision.
SubmitOutput(r) ==
  /\ row.state = "in_progress"
  /\ row.execution = r
  /\ row' = [row EXCEPT !.state = "waiting_approval", !.execution = None]
  /\ UNCHANGED calls
  /\ Record(None)

Decide(to) ==
  /\ row.state = "waiting_approval"
  /\ row' = [row EXCEPT !.state = to]
  /\ UNCHANGED calls
  /\ Record(None)

Step(p) == Refuse(p) \/ Already(p) \/ Swap(p) \/ Reread(p) \/ GiveUp(p)

Next ==
  \/ \E p \in Callers : Step(p)
  \/ \E p \in Callers, kind \in {"claim", "release"}, r \in Runs, o \in Owners :
       Begin(p, kind, r, o)
  \/ \E r \in Runs : SubmitOutput(r)
  \/ \E to \in {"in_progress", "done", "blocked"} : Decide(to)

Spec == Init /\ [][Next]_vars

\* A suspended call is resumed: its promise is settled by a synchronous
\* database call.  Nobody is obliged to make another call.
FairSpec == Spec /\ \A p \in Callers : WF_vars(Step(p))

-----------------------------------------------------------------------------
(* Properties.                                                             *)

\* The row and the calls hold values of their types.
TypeOK ==
  /\ row \in Row
  /\ calls \in [Callers -> Call]
  /\ met \in [Callers -> BOOLEAN]
  /\ moved \in [Callers -> 0..Attempts]

\* A call that reports success is right: at some moment between its start and
\* its end the task was checked out, or free of execution, as it asked.
SuccessIsReal == \A p \in Callers : calls[p].pc = "ok" => met[p]

\* A call reports a concurrent update only when the row really changed under
\* it as often as it tried: a retry never loses to its own stale snapshot.
ContentionIsReal ==
  \A p \in Callers : calls[p].pc = "contended" => moved[p] = Attempts

\* lock_acquired_at is the time of the first claim: it is set together with
\* the owner and the checkout and survives release, review and every retry.
AcquiredOnce ==
  [][/\ row'.acquired = None <=> row'.owner = None
     /\ row'.acquired = None <=> row'.checkout = None
     /\ row.acquired # None => row'.acquired = row.acquired]_row

\* Every call ends, however its swaps are lost.
CallsReturn == \A p \in Callers : calls[p].pc = "read" ~> calls[p].pc \in Ended

\* The calls together behave like the lock of one task.
Holders == {h \in Runs \X Owners : OwnerIdentityOk(h[1], h[2])}

PhaseOf(state) ==
  CASE state \in {"todo", "in_progress"} -> "open"
    [] state = "waiting_approval" -> "review"
    [] OTHER -> "settled"

Lock == INSTANCE TaskLock
  WITH phase <- PhaseOf(row.state),
       holder <- IF row.checkout = None THEN None ELSE <<row.checkout, row.owner>>,
       executing <- row.execution # None

ImplementsTaskLock == Lock!Spec

=============================================================================
