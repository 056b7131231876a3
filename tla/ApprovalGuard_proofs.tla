------------------------ MODULE ApprovalGuard_proofs ------------------------
(* Theorems about ApprovalGuard for any number of callers, tasks, runs and *)
(* approvals, and any moves the callers ask for.                           *)
EXTENDS ApprovalGuard, TLAPS

-----------------------------------------------------------------------------
(* The inductive invariant.                                                *)

\* The rows of tasks and runs are all there is.
RowsOk == state \in [Entities -> TaskStates \cup RunStatuses \cup {None}]

\* A call under way has been validated and has an attempt left.
CallValid(call) ==
  call.pc \notin Ended =>
    /\ call.entity \in Entities
    /\ ValidMove(call.entity, call.from, call.to)
    /\ call.pc \in {"read", "listed"} => call.attempt < Attempts

\* What a call has read, listed or lost, and what it has reported, is among
\* the facts of its time.
CallReal(call, known) ==
  /\ call.pc = "read" /\ call.current # call.from => "elsewhere" \in known
  /\ call.pc = "lost" => "elsewhere" \in known
  /\ call.pc = "listed" /\ call.blocking # {} => "unresolved" \in known
  /\ call.pc = "listed" /\ call.blocking = {} /\ IsGuarded(call.from, call.to) =>
       "clear" \in known
  /\ call.pc = "ok" /\ IsGuarded(call.from, call.to) => "clear" \in known
  /\ call.pc = "blocked" => "unresolved" \in known
  /\ call.pc = "conflict" => "elsewhere" \in known

\* A call that is about to move its entity past the gate has missed at most
\* the approvals that came after its read.
CallMissed(call, table, missed) ==
  call.pc = "listed" /\ call.blocking = {} /\ IsGuarded(call.from, call.to) =>
    Unresolved(table, call.entity) \subseteq missed

IInv ==
  /\ TypeOK
  /\ RowsOk
  /\ \A p \in Callers : CallValid(calls[p])
  /\ \A p \in Callers : CallReal(calls[p], facts[p])
  /\ \A p \in Callers : CallMissed(calls[p], approvals, late[p])

-----------------------------------------------------------------------------
(* The history.                                                            *)

\* A step adds to the facts of the calls under way, and to the approvals they
\* cannot have seen; only the caller that reads starts afresh.
LEMMA Observed ==
  ASSUME TypeOK, NEW requested \in SUBSET Approvals, NEW reader,
         Observe(requested, reader)
  PROVE  /\ facts' \in [Callers -> SUBSET {"clear", "unresolved", "elsewhere"}]
         /\ late' \in [Callers -> SUBSET Approvals]
         /\ \A p \in Callers : facts[p] \subseteq facts'[p]
         /\ \A p \in Callers : Active(p) => FactsOf(calls[p], state', approvals') \subseteq facts'[p]
         /\ \A p \in Callers : Active(p) /\ p # reader => late'[p] = late[p] \cup requested
  <1>1. facts' = [p \in Callers |->
                    IF Active(p) THEN facts[p] \cup FactsOf(calls[p], state', approvals')
                    ELSE facts[p]]
    BY DEF Observe
  <1>2. late' = [p \in Callers |-> IF p = reader THEN {}
                                   ELSE IF Active(p) THEN late[p] \cup requested ELSE late[p]]
    BY DEF Observe
  <1>3. \A p \in Callers : facts[p] \subseteq {"clear", "unresolved", "elsewhere"}
    BY DEF TypeOK
  <1>4. \A p \in Callers :
          FactsOf(calls[p], state', approvals') \subseteq {"clear", "unresolved", "elsewhere"}
    BY DEF FactsOf
  <1>5. \A p \in Callers : late[p] \subseteq Approvals
    BY DEF TypeOK
  <1> QED
    BY <1>1, <1>2, <1>3, <1>4, <1>5

LEMMA Facts ==
  ASSUME NEW call, NEW st, NEW table
  PROVE  /\ Unresolved(table, call.entity) = {} => "clear" \in FactsOf(call, st, table)
         /\ Unresolved(table, call.entity) # {} => "unresolved" \in FactsOf(call, st, table)
         /\ st[call.entity] # call.from => "elsewhere" \in FactsOf(call, st, table)
  BY DEF FactsOf

LEMMA EndedCalls ==
  ASSUME NEW outcome \in Ended
  PROVE  /\ EndedCall(outcome) \in Call
         /\ EndedCall(outcome).pc = outcome
  BY DEF EndedCall, Call, Ended, Attempts

\* What is known only grows, so that a call the step leaves alone stays real.
LEMMA StillReal ==
  ASSUME NEW call, NEW known, NEW more, known \subseteq more, CallReal(call, known)
  PROVE  CallReal(call, more)
  BY DEF CallReal

-----------------------------------------------------------------------------
(* Initial states.                                                         *)

LEMMA InitIInv == Init => IInv
  <1> SUFFICES ASSUME Init PROVE IInv
    OBVIOUS
  <1>1. PICK rows \in SUBSET Entities :
          state = [e \in Entities |->
                     IF e \notin rows THEN None ELSE IF e \in Tasks THEN "todo" ELSE "planned"]
    BY DEF Init
  <1>2. /\ \A e \in Entities : state[e] \in StatesOf(e) \cup {None}
        /\ RowsOk
    BY <1>1 DEF StatesOf, RowsOk, TaskStates, RunStatuses
  <1>3. EndedCall("not_found") \in Call /\ EndedCall("not_found").pc = "not_found"
    BY EndedCalls DEF Ended
  <1>4. \A p \in Callers : calls[p] \in Call /\ calls[p].pc = "not_found"
    BY <1>3 DEF Init
  <1>5. TypeOK
    BY <1>2, <1>3 DEF Init, TypeOK, Approval
  <1>6. \A p \in Callers : CallValid(calls[p])
    BY <1>4 DEF CallValid, Ended
  <1>7. \A p \in Callers : CallReal(calls[p], facts[p]) /\ CallMissed(calls[p], approvals, late[p])
    BY <1>4 DEF CallReal, CallMissed
  <1> QED
    BY <1>2, <1>5, <1>6, <1>7 DEF IInv

-----------------------------------------------------------------------------
(* The steps of a call.                                                    *)

\* A step of p that leaves the rows and p's call as c: what has to be shown.
LEMMA OwnStep ==
  ASSUME IInv, NEW p \in Callers, NEW reader \in {None, p}, Observe({}, reader),
         UNCHANGED approvals, RowsOk', \A e \in Entities : state'[e] \in StatesOf(e) \cup {None},
         NEW c \in Call, calls' = [calls EXCEPT ![p] = c],
         CallValid(c), CallReal(c, facts'[p]), CallMissed(c, approvals, late'[p])
  PROVE  IInv'
  <1>1. calls'[p] = c /\ \A q \in Callers \ {p} : calls'[q] = calls[q]
    BY DEF IInv, TypeOK
  <1>2. TypeOK'
    BY Observed DEF IInv, TypeOK
  <1>3. ASSUME NEW q \in Callers
        PROVE  /\ CallValid(calls'[q])
               /\ CallReal(calls'[q], facts'[q])
               /\ CallMissed(calls'[q], approvals, late'[q])
    <2>1. CASE q = p
      BY <1>1, <2>1
    <2>2. CASE q # p
      <3>1. /\ CallValid(calls[q]) /\ CallReal(calls[q], facts[q])
            /\ CallMissed(calls[q], approvals, late[q])
        BY DEF IInv
      <3>2. facts[q] \subseteq facts'[q] /\ (Active(q) => late'[q] = late[q])
        <4>1. q # reader
          BY <2>2, ConstantsAssumption
        <4>2. facts[q] \subseteq facts'[q] /\ (Active(q) => late'[q] = late[q] \cup {})
          BY <4>1, Observed DEF IInv
        <4> QED
          BY <4>2
      <3>3. CallReal(calls[q], facts'[q])
        BY <3>1, <3>2, StillReal
      <3>4. CallMissed(calls[q], approvals, late'[q])
        BY <3>1, <3>2 DEF CallMissed, Active, Ended
      <3> QED
        BY <1>1, <2>2, <3>1, <3>3, <3>4
    <2> QED
      BY <2>1, <2>2
  <1> QED
    BY <1>2, <1>3 DEF IInv

\* The call that End leaves.
LEMMA EndStep ==
  ASSUME IInv, NEW p \in Callers, NEW reader \in {None, p}, Observe({}, reader),
         UNCHANGED approvals, RowsOk', \A e \in Entities : state'[e] \in StatesOf(e) \cup {None},
         NEW outcome \in Ended, End(p, outcome),
         outcome = "ok" /\ IsGuarded(calls[p].from, calls[p].to) => "clear" \in facts'[p],
         outcome = "blocked" => "unresolved" \in facts'[p],
         outcome = "conflict" => "elsewhere" \in facts'[p]
  PROVE  IInv'
  <1> DEFINE c == [calls[p] EXCEPT !.pc = outcome, !.current = None,
                                   !.blocking = {}, !.attempt = 0]
  <1>1. calls' = [calls EXCEPT ![p] = c]
    BY DEF End
  <1>2. calls[p] \in Call
    BY DEF IInv, TypeOK
  <1>3. c \in Call /\ c.pc = outcome /\ c.from = calls[p].from /\ c.to = calls[p].to
    <2>1. outcome \in {"read", "listed", "lost"} \cup Ended /\ 0 \in 0..Attempts
      BY DEF Attempts
    <2> QED
      BY <1>2, <2>1 DEF Call
  <1> HIDE DEF c
  <1>4. CallValid(c)
    BY <1>3 DEF CallValid
  <1>5. CallReal(c, facts'[p]) /\ CallMissed(c, approvals, late'[p])
    BY <1>3 DEF CallReal, CallMissed, Ended
  <1> QED
    BY <1>1, <1>3, <1>4, <1>5, OwnStep

LEMMA SameRows ==
  ASSUME IInv, UNCHANGED state
  PROVE  RowsOk' /\ \A e \in Entities : state'[e] \in StatesOf(e) \cup {None}
  BY DEF IInv, TypeOK, RowsOk

LEMMA ConflictIInv ==
  ASSUME IInv, NEW p \in Callers, Conflict(p)
  PROVE  IInv'
  <1>1. "elsewhere" \in facts'[p]
    BY Observed DEF Conflict, IInv, CallReal
  <1> QED
    BY <1>1, SameRows, EndStep DEF Conflict, Ended

LEMMA AlreadyIInv ==
  ASSUME IInv, NEW p \in Callers, Already(p)
  PROVE  IInv'
  <1>1. ~IsGuarded(calls[p].from, calls[p].to)
    BY DEF Already, IsGuarded
  <1> QED
    BY <1>1, SameRows, EndStep DEF Already, Ended

LEMMA ListIInv ==
  ASSUME IInv, NEW p \in Callers, List(p)
  PROVE  IInv'
  <1> DEFINE guarded == IsGuarded(calls[p].from, calls[p].to)
             seen == Unresolved(approvals, calls[p].entity)
             c == [calls[p] EXCEPT !.pc = "listed", !.blocking = IF guarded THEN seen ELSE {}]
  <1>1. calls' = [calls EXCEPT ![p] = c]
    BY DEF List
  <1>2. calls[p] \in Call /\ calls[p].pc = "read" /\ Active(p) /\ CallValid(calls[p])
    BY DEF IInv, TypeOK, List, Active, Ended
  <1>3. seen \subseteq Approvals
    BY DEF Unresolved
  <1>4. /\ c \in Call /\ c.pc = "listed" /\ c.entity = calls[p].entity
        /\ c.from = calls[p].from /\ c.to = calls[p].to /\ c.attempt = calls[p].attempt
        /\ c.blocking = IF guarded THEN seen ELSE {}
    BY <1>2, <1>3 DEF Call
  <1> HIDE DEF c
  <1>5. CallValid(c)
    BY <1>2, <1>4 DEF CallValid, Ended
  <1>6. FactsOf(calls[p], state', approvals') \subseteq facts'[p] /\ approvals' = approvals
    BY <1>2, Observed DEF List, IInv
  <1>7. (seen = {} => "clear" \in facts'[p]) /\ (seen # {} => "unresolved" \in facts'[p])
    BY <1>6, Facts
  <1>8. CallReal(c, facts'[p])
    BY <1>4, <1>7 DEF CallReal
  <1>9. CallMissed(c, approvals, late'[p])
    BY <1>4 DEF CallMissed
  <1> QED
    BY <1>1, <1>4, <1>5, <1>8, <1>9, SameRows, OwnStep DEF List

LEMMA BlockedIInv ==
  ASSUME IInv, NEW p \in Callers, Blocked(p)
  PROVE  IInv'
  <1>1. "unresolved" \in facts'[p]
    BY Observed DEF Blocked, IInv, CallReal
  <1> QED
    BY <1>1, SameRows, EndStep DEF Blocked, Ended

LEMMA SwapIInv ==
  ASSUME IInv, NEW p \in Callers, Swap(p)
  PROVE  IInv'
  <1> DEFINE e == calls[p].entity
  <1>1. /\ calls[p] \in Call /\ calls[p].pc = "listed" /\ calls[p].blocking = {}
        /\ Active(p) /\ CallValid(calls[p]) /\ CallReal(calls[p], facts[p])
        /\ Observe({}, None) /\ UNCHANGED approvals
    BY DEF IInv, TypeOK, Swap, Active, Ended
  <1>2. e \in Entities /\ calls[p].to \in StatesOf(e) /\ calls[p].attempt < Attempts
    BY <1>1 DEF CallValid, ValidMove, Ended
  <1>3. facts[p] \subseteq facts'[p] /\ FactsOf(calls[p], state', approvals') \subseteq facts'[p]
    BY <1>1, Observed DEF IInv
  <1>4. CASE state' = [state EXCEPT ![e] = calls[p].to] /\ End(p, "ok")
    <2>1. RowsOk' /\ \A f \in Entities : state'[f] \in StatesOf(f) \cup {None}
      BY <1>2, <1>4 DEF IInv, TypeOK, RowsOk, StatesOf
    <2>2. IsGuarded(calls[p].from, calls[p].to) => "clear" \in facts'[p]
      BY <1>1, <1>3 DEF CallReal
    <2> QED
      BY <1>1, <1>4, <2>1, <2>2, EndStep DEF Ended
  <1>5. CASE /\ state[e] # calls[p].from
             /\ calls' = [calls EXCEPT ![p].pc = "lost", ![p].attempt = @ + 1]
             /\ UNCHANGED state
    <2> DEFINE c == [calls[p] EXCEPT !.pc = "lost", !.attempt = @ + 1]
    <2>1. calls' = [calls EXCEPT ![p] = c]
      BY <1>5
    <2>2. calls[p].attempt + 1 \in 0..Attempts
      BY <1>1, <1>2 DEF Call, Attempts
    <2>3. /\ c \in Call /\ c.pc = "lost" /\ c.entity = e
          /\ c.from = calls[p].from /\ c.to = calls[p].to
      BY <1>1, <2>2 DEF Call
    <2> HIDE DEF c
    <2>4. CallValid(c)
      BY <1>1, <2>3 DEF CallValid, Ended
    <2>5. "elsewhere" \in facts'[p]
      BY <1>3, <1>5, Facts
    <2>6. CallReal(c, facts'[p]) /\ CallMissed(c, approvals, late'[p])
      BY <2>3, <2>5 DEF CallReal, CallMissed
    <2> QED
      BY <1>1, <1>5, <2>1, <2>3, <2>4, <2>6, SameRows, OwnStep
  <1> QED
    BY <1>4, <1>5 DEF Swap

LEMMA RereadIInv ==
  ASSUME IInv, NEW p \in Callers, Reread(p)
  PROVE  IInv'
  <1> DEFINE e == calls[p].entity
  <1>1. /\ calls[p] \in Call /\ calls[p].pc = "lost"
        /\ Active(p) /\ CallValid(calls[p]) /\ CallReal(calls[p], facts[p])
        /\ Observe({}, p) /\ UNCHANGED <<state, approvals>>
    BY DEF IInv, TypeOK, Reread, Active, Ended
  <1>2. facts[p] \subseteq facts'[p] /\ FactsOf(calls[p], state', approvals') \subseteq facts'[p]
    BY <1>1, Observed DEF IInv
  <1>3. "elsewhere" \in facts'[p]
    BY <1>1, <1>2 DEF CallReal
  <1>4. CASE End(p, "conflict")
    BY <1>1, <1>3, <1>4, SameRows, EndStep DEF Ended
  <1>5. CASE /\ calls[p].attempt # Attempts
             /\ calls' = [calls EXCEPT ![p].pc = "read", ![p].current = state[e]]
    <2> DEFINE c == [calls[p] EXCEPT !.pc = "read", !.current = state[e]]
    <2>1. calls' = [calls EXCEPT ![p] = c]
      BY <1>5
    <2>2. e \in Entities /\ state[e] \in TaskStates \cup RunStatuses \cup {None}
      BY <1>1 DEF CallValid, Ended, IInv, RowsOk
    <2>3. calls[p].attempt < Attempts
      BY <1>1, <1>5 DEF Call, Attempts
    <2>4. /\ c \in Call /\ c.pc = "read" /\ c.entity = e /\ c.attempt = calls[p].attempt
          /\ c.from = calls[p].from /\ c.to = calls[p].to
      BY <1>1, <2>2 DEF Call
    <2> HIDE DEF c
    <2>5. CallValid(c)
      BY <1>1, <2>3, <2>4 DEF CallValid, Ended
    <2>6. CallReal(c, facts'[p]) /\ CallMissed(c, approvals, late'[p])
      BY <1>3, <2>4 DEF CallReal, CallMissed
    <2> QED
      BY <1>1, <2>1, <2>4, <2>5, <2>6, SameRows, OwnStep
  <1> QED
    BY <1>4, <1>5 DEF Reread

LEMMA BeginIInv ==
  ASSUME IInv, NEW p \in Callers, NEW e \in Entities, NEW from, NEW to, Begin(p, e, from, to)
  PROVE  IInv'
  <1> DEFINE c == IF ~ValidMove(e, from, to) THEN EndedCall("invalid")
                  ELSE IF state[e] = None THEN EndedCall("not_found")
                  ELSE [pc |-> "read", entity |-> e, from |-> from, to |-> to,
                        current |-> state[e], blocking |-> {}, attempt |-> 0]
  <1>1. calls' = [calls EXCEPT ![p] = c] /\ UNCHANGED <<state, approvals>>
    BY DEF Begin
  <1>2. \/ c \in Call /\ c.pc \in {"invalid", "not_found"}
        \/ /\ c \in Call /\ c.pc = "read" /\ c.entity = e /\ c.from = from /\ c.to = to
           /\ c.current = state[e] /\ c.attempt = 0
           /\ ValidMove(e, from, to)
    <2>1. state[e] \in TaskStates \cup RunStatuses \cup {None}
      BY DEF IInv, RowsOk
    <2>2. ValidMove(e, from, to) => {from, to} \subseteq TaskStates \cup RunStatuses
      BY DEF ValidMove, StatesOf
    <2> QED
      BY <2>1, <2>2, EndedCalls DEF Call, Ended, Attempts
  <1> HIDE DEF c
  <1>3. calls'[p] = c /\ \A q \in Callers \ {p} : calls'[q] = calls[q]
    BY <1>1 DEF IInv, TypeOK
  <1>4. /\ facts' = [facts EXCEPT ![p] =
                       IF Active(p)' THEN FactsOf(calls'[p], state, approvals) ELSE {}]
        /\ late' = [late EXCEPT ![p] = {}]
    BY DEF Begin
  <1>5. /\ facts' \in [Callers -> SUBSET {"clear", "unresolved", "elsewhere"}]
        /\ late' \in [Callers -> SUBSET Approvals]
        /\ \A q \in Callers \ {p} : facts'[q] = facts[q] /\ late'[q] = late[q]
        /\ facts'[p] = IF Active(p)' THEN FactsOf(calls'[p], state, approvals) ELSE {}
    BY <1>4 DEF IInv, TypeOK, FactsOf
  <1>6. TypeOK' /\ RowsOk'
    BY <1>1, <1>2, <1>5 DEF IInv, TypeOK, RowsOk
  <1>7. CallValid(c)
    BY <1>2 DEF CallValid, Ended, Attempts
  <1>8. c.pc = "read" /\ c.current # c.from => "elsewhere" \in facts'[p]
    <2>1. c.pc = "read" => Active(p)'
      BY <1>3 DEF Active, Ended
    <2> QED
      BY <1>2, <1>3, <1>5, <2>1, Facts
  <1>9. CallReal(c, facts'[p]) /\ CallMissed(c, approvals, late'[p])
    BY <1>2, <1>8 DEF CallReal, CallMissed
  <1> QED
    BY <1>1, <1>3, <1>5, <1>6, <1>7, <1>9 DEF IInv

-----------------------------------------------------------------------------
(* The other writers.                                                      *)

\* A step that leaves the calls alone and requests at most the given
\* approvals.
LEMMA OtherStep ==
  ASSUME IInv, UNCHANGED calls, NEW requested \in SUBSET Approvals, Observe(requested, None),
         approvals' \in [Approvals -> Approval], RowsOk',
         \A e \in Entities : state'[e] \in StatesOf(e) \cup {None},
         \A e \in Entities :
           Unresolved(approvals', e) \subseteq Unresolved(approvals, e) \cup requested
  PROVE  IInv'
  <1>1. TypeOK'
    BY Observed DEF IInv, TypeOK
  <1>2. ASSUME NEW q \in Callers
        PROVE  /\ CallReal(calls[q], facts'[q])
               /\ CallMissed(calls[q], approvals', late'[q])
    <2>1. /\ CallValid(calls[q]) /\ CallReal(calls[q], facts[q])
          /\ CallMissed(calls[q], approvals, late[q])
      BY DEF IInv
    <2>2. facts[q] \subseteq facts'[q] /\ (Active(q) => late'[q] = late[q] \cup requested)
      BY Observed, ConstantsAssumption DEF IInv
    <2>3. CallReal(calls[q], facts'[q])
      BY <2>1, <2>2, StillReal
    <2>4. CallMissed(calls[q], approvals', late'[q])
      BY <2>1, <2>2 DEF CallMissed, CallValid, Active, Ended
    <2> QED
      BY <2>3, <2>4
  <1> QED
    BY <1>1, <1>2 DEF IInv

LEMMA ClaimIInv ==
  ASSUME IInv, NEW t \in Tasks, NEW r \in Runs, Claim(t, r)
  PROVE  IInv'
  <1>1. RowsOk' /\ \A e \in Entities : state'[e] \in StatesOf(e) \cup {None}
    BY ConstantsAssumption DEF Claim, IInv, TypeOK, RowsOk, StatesOf, Entities, TaskStates,
                               RunStatuses
  <1> QED
    BY <1>1, OtherStep DEF Claim, IInv, TypeOK

LEMMA SubmitIInv ==
  ASSUME IInv, NEW t \in Tasks, NEW r \in Runs, NEW a \in Approvals, Submit(t, r, a)
  PROVE  IInv'
  <1>1. RowsOk' /\ \A e \in Entities : state'[e] \in StatesOf(e) \cup {None}
    BY ConstantsAssumption DEF Submit, IInv, TypeOK, RowsOk, StatesOf, Entities, TaskStates,
                               RunStatuses
  <1>2. approvals' \in [Approvals -> Approval]
    BY DEF Submit, IInv, TypeOK, Approval, ApprovalStatuses, Entities
  <1>3. \A e \in Entities : Unresolved(approvals', e) \subseteq Unresolved(approvals, e) \cup {a}
    BY DEF Submit, Unresolved, IInv, TypeOK
  <1>4. {a} \in SUBSET Approvals /\ Observe({a}, None) /\ UNCHANGED calls
    BY DEF Submit
  <1> QED
    BY <1>1, <1>2, <1>3, <1>4, OtherStep

LEMMA DecideIInv ==
  ASSUME IInv, NEW a \in Approvals, NEW verdict \in ApprovalStatuses \ UnresolvedStatuses,
         Decide(a, verdict)
  PROVE  IInv'
  <1>1. approvals' \in [Approvals -> Approval]
    BY DEF Decide, IInv, TypeOK, Approval
  <1>2. \A e \in Entities : Unresolved(approvals', e) \subseteq Unresolved(approvals, e)
    BY DEF Decide, Unresolved, IInv, TypeOK, Approval
  <1> QED
    BY <1>1, <1>2, SameRows, OtherStep DEF Decide

-----------------------------------------------------------------------------
(* The theorems.                                                           *)

LEMMA NextIInv == IInv /\ [Next]_vars => IInv'
  <1> SUFFICES ASSUME IInv, [Next]_vars PROVE IInv'
    OBVIOUS
  <1>1. CASE \E p \in Callers : Step(p)
    BY <1>1, ConflictIInv, AlreadyIInv, ListIInv, BlockedIInv, SwapIInv, RereadIInv DEF Step
  <1>2. CASE \E p \in Callers, e \in Entities, move \in Moves : Begin(p, e, move[1], move[2])
    BY <1>2, BeginIInv
  <1>3. CASE \E t \in Tasks, r \in Runs : Claim(t, r)
    BY <1>3, ClaimIInv
  <1>4. CASE \E t \in Tasks, r \in Runs, a \in Approvals : Submit(t, r, a)
    BY <1>4, SubmitIInv
  <1>5. CASE \E a \in Approvals, verdict \in ApprovalStatuses \ UnresolvedStatuses :
               Decide(a, verdict)
    BY <1>5, DecideIInv
  <1>6. CASE UNCHANGED vars
    BY <1>6 DEF vars, IInv, TypeOK, RowsOk, Unresolved, CallMissed
  <1> QED
    BY <1>1, <1>2, <1>3, <1>4, <1>5, <1>6 DEF Next

\* The inductive invariant holds throughout.
THEOREM Invariance == Spec => []IInv
  BY InitIInv, NextIInv, PTL DEF Spec

\* Rows and calls keep values of their types; no call tries more often than
\* the loop allows, whatever its competitors do.
THEOREM TypeCorrect == Spec => []TypeOK
  <1>1. IInv => TypeOK
    BY DEF IInv
  <1> QED
    BY <1>1, Invariance, PTL

\* Whatever a call reports was so at some moment of it: a guarded move that
\* passed saw every approval resolved, a blocked one an unresolved approval, a
\* conflict the entity in another state.
THEOREM VerdictsHold == Spec => []VerdictsAreReal
  <1>1. IInv => VerdictsAreReal
    BY DEF IInv, VerdictsAreReal, CallReal
  <1> QED
    BY <1>1, Invariance, PTL

\* Only a call of the service takes an entity out of waiting_approval, and the
\* unresolved approvals it passes were all requested after it last read the
\* entity, through any number of retries and competitors.
THEOREM OnlyTheWindowIsOpen == Spec => OnlyLateRequestsArePassed
  <1> DEFINE Passed == \A e \in Entities :
               state[e] = "waiting_approval" /\ state'[e] # "waiting_approval" =>
                 \E p \in Callers :
                   /\ calls[p].entity = e /\ Active(p) /\ calls'[p].pc = "ok"
                   /\ Unresolved(approvals, e) \subseteq late[p]
  <1>1. ASSUME IInv, Next, NEW e \in Entities,
               state[e] = "waiting_approval", state'[e] # "waiting_approval"
        PROVE  \E p \in Callers :
                 /\ calls[p].entity = e /\ Active(p) /\ calls'[p].pc = "ok"
                 /\ Unresolved(approvals, e) \subseteq late[p]
    <2>1. ASSUME NEW t \in Tasks, NEW r \in Runs, Claim(t, r)
          PROVE  FALSE
      BY <1>1, <2>1 DEF Claim, IInv, RowsOk
    <2>2. ASSUME NEW t \in Tasks, NEW r \in Runs, NEW a \in Approvals, Submit(t, r, a)
          PROVE  FALSE
      BY <1>1, <2>2 DEF Submit, IInv, RowsOk
    <2>3. ASSUME NEW p \in Callers, Step(p)
          PROVE  Swap(p)
      BY <1>1, <2>3 DEF Step, Conflict, Already, List, Blocked, Reread
    <2>4. PICK p \in Callers : Swap(p)
      BY <1>1, <2>1, <2>2, <2>3 DEF Next, Begin, Decide
    <2>5. /\ calls[p] \in Call /\ calls[p].pc = "listed" /\ calls[p].blocking = {}
          /\ CallMissed(calls[p], approvals, late[p])
      BY <1>1, <2>4 DEF IInv, TypeOK, Swap
    <2>6. /\ state[calls[p].entity] = calls[p].from
          /\ state' = [state EXCEPT ![calls[p].entity] = calls[p].to]
          /\ End(p, "ok")
      BY <1>1, <2>4 DEF Swap
    <2>7. /\ calls[p].entity = e /\ calls[p].from = "waiting_approval"
          /\ calls[p].to # "waiting_approval"
      BY <1>1, <2>6 DEF IInv, RowsOk
    <2>8. calls'[p].pc = "ok"
      BY <1>1, <2>6 DEF End, IInv, TypeOK, Call
    <2> QED
      BY <2>5, <2>7, <2>8 DEF CallMissed, IsGuarded, Active, Ended
  <1>2. IInv /\ [Next]_vars => [Passed]_vars
    BY <1>1
  <1> QED
    BY <1>2, Invariance, PTL DEF Spec, OnlyLateRequestsArePassed

=============================================================================
