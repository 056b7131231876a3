-------------------------- MODULE TaskClaim_proofs --------------------------
(* Theorems about TaskClaim for any number of callers, runs and owners.    *)
EXTENDS TaskClaim, TLAPS

-----------------------------------------------------------------------------
(* The inductive invariant.                                                *)

\* The columns of the row belong together.
RowConsistent ==
  /\ row.execution # None => row.execution = row.checkout /\ row.state = "in_progress"
  /\ row.checkout = None <=> row.owner = None
  /\ row.checkout = None <=> row.acquired = None
  /\ row.owner \in Runs => row.owner = row.checkout

\* A call under way has been validated.
CallsValid ==
  \A p \in Callers : calls[p].pc \notin Ended =>
    /\ calls[p].kind \in {"claim", "release"}
    /\ calls[p].run \in Runs
    /\ calls[p].owner \in Owners
    /\ OwnerIdentityOk(calls[p].run, calls[p].owner)

\* What a call has seen to be so has been so since it began, and what it last
\* tried to write is what it was asked for.
SeenIsMet ==
  \A p \in Callers :
    /\ calls[p].pc = "read" /\ Meets(calls[p].current, calls[p]) => met[p]
    /\ calls[p].pc = "lost" => Meets(calls[p].next, calls[p])
    /\ calls[p].pc = "ok" => met[p]

\* Every lost attempt is accounted for by a change under the call, and so is
\* the attempt that is going to be lost because the row read is out of date.
LossesCounted ==
  \A p \in Callers :
    /\ calls[p].pc \in {"read", "lost"} => calls[p].attempt <= moved[p]
    /\ calls[p].pc = "read" /\ calls[p].current # row /\ calls[p].attempt < Attempts =>
         calls[p].attempt < moved[p]
    /\ calls[p].pc = "contended" => moved[p] = Attempts

IInv == TypeOK /\ RowConsistent /\ CallsValid /\ SeenIsMet /\ LossesCounted

-----------------------------------------------------------------------------
(* What a call wants.                                                      *)

LEMMA WantedRow ==
  ASSUME NEW task \in Row, NEW call \in Call, NEW now \in Stamps,
         call.kind \in {"claim", "release"}, call.run \in Runs, call.owner \in Owners
  PROVE  /\ NextSnapshot(task, call, now) \in Row
         /\ Meets(NextSnapshot(task, call, now), call)
  BY DEF NextSnapshot, Meets, Row, States

LEMMA IdleCall ==
  ASSUME NEW outcome \in Ended
  PROVE  EndedCall(outcome) \in Call /\ EndedCall(outcome).pc = outcome
  BY DEF EndedCall, Call, Ended, Unclaimed, Row, States, Attempts

LEMMA InitIInv == Init => IInv
  <1> SUFFICES ASSUME Init PROVE IInv
    OBVIOUS
  <1>1. row \in Row
    BY DEF Init, Unclaimed, Row, States
  <1>2. \A p \in Callers : calls[p] \in Call /\ calls[p].pc = "refused"
    BY IdleCall DEF Init, Ended
  <1>3. calls \in [Callers -> Call]
    BY IdleCall DEF Init, Ended
  <1>4. TypeOK
    BY <1>1, <1>3 DEF Init, TypeOK, Attempts
  <1>5. RowConsistent
    BY ConstantsAssumption DEF Init, RowConsistent, Unclaimed
  <1>6. CallsValid /\ SeenIsMet /\ LossesCounted
    BY <1>2 DEF CallsValid, SeenIsMet, LossesCounted, Ended
  <1> QED
    BY <1>4, <1>5, <1>6 DEF IInv

-----------------------------------------------------------------------------
(* The history of the calls that a step leaves alone.                      *)

LEMMA History ==
  ASSUME IInv, NEW p, Record(p), row' \in Row
  PROVE  /\ met' \in [Callers -> BOOLEAN]
         /\ moved' \in [Callers -> 0..Attempts]
         /\ \A q \in Callers : met[q] => met'[q]
         /\ \A q \in Callers : calls[q].pc \in Ended => met'[q] = met[q] /\ moved'[q] = moved[q]
         /\ \A q \in Callers : calls[q].pc \notin Ended /\ Meets(row', calls[q]) => met'[q]
         /\ \A q \in Callers : moved[q] <= moved'[q]
         /\ \A q \in Callers :
              calls[q].pc \notin Ended /\ q # p /\ row' # row /\ moved[q] < Attempts =>
                moved[q] < moved'[q]
  <1>1. met' = [q \in Callers |-> met[q] \/ (calls[q].pc \notin Ended /\ Meets(row', calls[q]))]
    BY DEF Record
  <1>2. met' \in [Callers -> BOOLEAN]
    <2>1. \A q \in Callers :
            (met[q] \/ (calls[q].pc \notin Ended /\ Meets(row', calls[q]))) \in BOOLEAN
      OBVIOUS
    <2> QED
      BY <1>1, <2>1, Zenon
  <1>3. /\ \A q \in Callers : met[q] => met'[q]
        /\ \A q \in Callers : calls[q].pc \notin Ended /\ Meets(row', calls[q]) => met'[q]
    BY <1>1, Zenon
  <1>4. \A q \in Callers : calls[q].pc \in Ended => met'[q] = met[q]
    <2>1. \A q \in Callers : met[q] \in BOOLEAN
      BY DEF IInv, TypeOK
    <2>2. \A q \in Callers : calls[q].pc \in Ended => met'[q] = (met[q] \/ FALSE)
      BY <1>1, Zenon
    <2> QED
      BY <2>1, <2>2
  <1>5. /\ moved' \in [Callers -> 0..Attempts]
        /\ \A q \in Callers : calls[q].pc \in Ended => moved'[q] = moved[q]
        /\ \A q \in Callers : moved[q] <= moved'[q]
        /\ \A q \in Callers :
             calls[q].pc \notin Ended /\ q # p /\ row' # row /\ moved[q] < Attempts =>
               moved[q] < moved'[q]
    BY DEF IInv, TypeOK, Record, Attempts
  <1> QED
    BY <1>2, <1>3, <1>4, <1>5

\* A call that a step does not touch keeps its part of the invariant.
LEMMA Bystander ==
  ASSUME IInv, NEW p, Record(p), row' \in Row,
         NEW q \in Callers, q # p \/ row' = row, calls'[q] = calls[q]
  PROVE  /\ calls'[q].pc = "read" /\ Meets(calls'[q].current, calls'[q]) => met'[q]
         /\ calls'[q].pc = "lost" => Meets(calls'[q].next, calls'[q])
         /\ calls'[q].pc = "ok" => met'[q]
         /\ calls'[q].pc \in {"read", "lost"} => calls'[q].attempt <= moved'[q]
         /\ calls'[q].pc = "read" /\ calls'[q].current # row' /\ calls'[q].attempt < Attempts =>
              calls'[q].attempt < moved'[q]
         /\ calls'[q].pc = "contended" => moved'[q] = Attempts
  <1>1. calls[q] \in Call /\ moved[q] \in 0..Attempts /\ moved'[q] \in 0..Attempts
    BY History DEF IInv, TypeOK
  <1>2. SeenIsMet /\ LossesCounted
    BY DEF IInv
  <1>3. calls[q].attempt \in 0..Attempts
    BY <1>1 DEF Call
  <1>4. calls'[q].pc = "read" /\ calls'[q].current # row' /\ calls'[q].attempt < Attempts =>
          calls'[q].attempt < moved'[q]
    <2> SUFFICES ASSUME calls[q].pc = "read", calls[q].current # row',
                        calls[q].attempt < Attempts
                 PROVE  calls[q].attempt < moved'[q]
      OBVIOUS
    <2>1. CASE row' = row
      BY <1>1, <1>2, <1>3, <2>1, History DEF LossesCounted, Attempts
    <2>2. CASE row' # row
      <3>1. calls[q].attempt <= moved[q] /\ calls[q].pc \notin Ended /\ q # p
        BY <1>2, <2>2 DEF LossesCounted, Ended
      <3>2. CASE moved[q] < Attempts
        BY <1>1, <1>3, <2>2, <3>1, <3>2, History DEF Attempts
      <3>3. CASE ~(moved[q] < Attempts)
        BY <1>1, <1>3, <3>1, <3>3, History DEF Attempts
      <3> QED
        BY <3>2, <3>3
    <2> QED
      BY <2>1, <2>2
  <1>5. /\ calls'[q].pc = "read" /\ Meets(calls'[q].current, calls'[q]) => met'[q]
        /\ calls'[q].pc = "lost" => Meets(calls'[q].next, calls'[q])
        /\ calls'[q].pc = "ok" => met'[q]
    BY <1>2, History DEF SeenIsMet
  <1>6. /\ calls'[q].pc \in {"read", "lost"} => calls'[q].attempt <= moved'[q]
        /\ calls'[q].pc = "contended" => moved'[q] = Attempts
    BY <1>1, <1>2, <1>3, History DEF LossesCounted, Attempts, Ended
  <1> QED
    BY <1>4, <1>5, <1>6

\* A step of p that leaves p's call as c: what has to be shown of c.
LEMMA OwnStep ==
  ASSUME IInv, NEW p \in Callers, Record(p), row' \in Row, RowConsistent',
         NEW c \in Call, calls' = [calls EXCEPT ![p] = c],
         c.pc \notin Ended =>
           /\ c.kind = calls[p].kind
           /\ c.run = calls[p].run
           /\ c.owner = calls[p].owner
           /\ calls[p].pc \notin Ended,
         c.pc = "read" /\ Meets(c.current, c) => met'[p],
         c.pc = "lost" => Meets(c.next, c),
         c.pc = "ok" => met'[p],
         c.pc \in {"read", "lost"} => c.attempt <= moved'[p],
         c.pc = "read" /\ c.current # row' /\ c.attempt < Attempts => c.attempt < moved'[p],
         c.pc = "contended" => moved'[p] = Attempts
  PROVE  IInv'
  <1>1. calls'[p] = c /\ \A q \in Callers \ {p} : calls'[q] = calls[q]
    BY DEF IInv, TypeOK
  <1>2. TypeOK'
    BY History DEF IInv, TypeOK
  <1>3. CallsValid'
    BY <1>1 DEF IInv, CallsValid
  <1>4. ASSUME NEW q \in Callers
        PROVE  /\ calls'[q].pc = "read" /\ Meets(calls'[q].current, calls'[q]) => met'[q]
               /\ calls'[q].pc = "lost" => Meets(calls'[q].next, calls'[q])
               /\ calls'[q].pc = "ok" => met'[q]
               /\ calls'[q].pc \in {"read", "lost"} => calls'[q].attempt <= moved'[q]
               /\ calls'[q].pc = "read" /\ calls'[q].current # row'
                    /\ calls'[q].attempt < Attempts => calls'[q].attempt < moved'[q]
               /\ calls'[q].pc = "contended" => moved'[q] = Attempts
    <2>1. CASE q = p
      BY <1>1, <2>1
    <2>2. CASE q # p
      BY <1>1, <2>2, Bystander
    <2> QED
      BY <2>1, <2>2
  <1>5. SeenIsMet' /\ LossesCounted'
    BY <1>4 DEF SeenIsMet, LossesCounted
  <1> QED
    BY <1>2, <1>3, <1>5 DEF IInv

LEMMA RefuseIInv ==
  ASSUME IInv, NEW p \in Callers, Refuse(p)
  PROVE  IInv'
  <1>1. EndedCall("refused") \in Call /\ EndedCall("refused").pc = "refused"
    BY IdleCall DEF Ended
  <1>2. row' \in Row /\ RowConsistent'
    BY DEF IInv, TypeOK, RowConsistent, Refuse
  <1> QED
    BY <1>1, <1>2, OwnStep DEF Refuse, End, Ended

LEMMA AlreadyIInv ==
  ASSUME IInv, NEW p \in Callers, Already(p)
  PROVE  IInv'
  <1>1. EndedCall("ok") \in Call /\ EndedCall("ok").pc = "ok"
    BY IdleCall DEF Ended
  <1>2. row' \in Row /\ RowConsistent'
    BY DEF IInv, TypeOK, RowConsistent, Already
  <1>3. Meets(calls[p].current, calls[p])
    <2>1. /\ calls[p] \in Call
          /\ calls[p].current \in Row
          /\ calls[p].kind \in {"claim", "release"}
          /\ calls[p].run \in Runs
          /\ calls[p].owner \in Owners
      BY DEF IInv, TypeOK, CallsValid, Already, Ended, Call
    <2> QED
      BY <2>1, WantedRow DEF Already
  <1>4. met'[p]
    <2>1. met[p]
      BY <1>3 DEF IInv, SeenIsMet, Already
    <2> QED
      BY <1>2, <2>1, History DEF Already
  <1> QED
    BY <1>1, <1>2, <1>4, OwnStep DEF Already, End, Ended

LEMMA GiveUpIInv ==
  ASSUME IInv, NEW p \in Callers, GiveUp(p)
  PROVE  IInv'
  <1>1. EndedCall("contended") \in Call /\ EndedCall("contended").pc = "contended"
    BY IdleCall DEF Ended
  <1>2. row' \in Row /\ RowConsistent'
    BY DEF IInv, TypeOK, RowConsistent, GiveUp
  <1>3. moved'[p] = Attempts
    <2>1. moved[p] = Attempts
      BY DEF IInv, TypeOK, LossesCounted, GiveUp, Attempts
    <2> QED
      BY <1>2, <2>1, History DEF GiveUp, Attempts
  <1> QED
    BY <1>1, <1>2, <1>3, OwnStep DEF GiveUp, End, Ended

LEMMA RereadIInv ==
  ASSUME IInv, NEW p \in Callers, Reread(p)
  PROVE  IInv'
  <1>1. row' = row /\ row \in Row /\ RowConsistent' /\ calls[p] \in Call /\ moved[p] \in 0..Attempts
    BY DEF IInv, TypeOK, RowConsistent, Reread
  <1>2. CASE row = calls[p].next
    <2>1. EndedCall("ok") \in Call /\ EndedCall("ok").pc = "ok"
      BY IdleCall DEF Ended
    <2>2. met'[p]
      <3>1. Meets(row', calls[p]) /\ calls[p].pc \notin Ended
        BY <1>1, <1>2 DEF IInv, SeenIsMet, Reread, Ended
      <3> QED
        BY <1>1, <3>1, History DEF Reread
    <2> QED
      BY <1>1, <1>2, <2>1, <2>2, OwnStep DEF Reread, End, Ended
  <1>3. CASE row # calls[p].next
    <2> DEFINE c == [calls[p] EXCEPT !.current = row, !.pc = "read"]
    <2>1. c \in Call
      BY <1>1 DEF Call
    <2>2. /\ c.pc = "read" /\ c.current = row /\ c.kind = calls[p].kind
          /\ c.run = calls[p].run /\ c.owner = calls[p].owner
          /\ c.attempt = calls[p].attempt
      BY <1>1 DEF Call
    <2>3. Meets(c.current, c) => met'[p]
      <3>1. Meets(row, c) => Meets(row', calls[p])
        BY <1>1, <2>2 DEF Meets
      <3> QED
        BY <1>1, <2>2, <3>1, History DEF Reread, Ended
    <2>4. c.attempt <= moved'[p]
      BY <1>1, <2>2, History DEF IInv, TypeOK, LossesCounted, Reread, Attempts, Call
    <2>5. calls' = [calls EXCEPT ![p] = c]
      BY <1>3 DEF Reread, Resume, IInv, TypeOK
    <2>6. calls[p].pc \notin Ended /\ Record(p)
      BY DEF Reread, Ended
    <2> HIDE DEF c
    <2> QED
      BY <1>1, <2>1, <2>2, <2>3, <2>4, <2>5, <2>6, OwnStep
  <1> QED
    BY <1>2, <1>3

\* A granted claim or release keeps the columns of the row together.
LEMMA WantedConsistent ==
  ASSUME IInv, NEW p \in Callers, NEW now \in Stamps, calls[p].pc = "read",
         row = calls[p].current, ~Refuses(calls[p].current, calls[p])
  PROVE  LET wanted == NextSnapshot(row, calls[p], now)
         IN /\ wanted.execution # None =>
                 wanted.execution = wanted.checkout /\ wanted.state = "in_progress"
            /\ wanted.checkout = None <=> wanted.owner = None
            /\ wanted.checkout = None <=> wanted.acquired = None
            /\ wanted.owner \in Runs => wanted.owner = wanted.checkout
  <1>1. /\ row \in Row /\ calls[p] \in Call
        /\ calls[p].kind \in {"claim", "release"}
        /\ calls[p].run \in Runs
        /\ calls[p].owner \in Owners
        /\ OwnerIdentityOk(calls[p].run, calls[p].owner)
    BY DEF IInv, TypeOK, CallsValid, Ended
  <1>2. RowConsistent
    BY DEF IInv
  <1>3. CASE calls[p].kind = "release"
    BY <1>1, <1>2, <1>3 DEF NextSnapshot, RowConsistent, Row
  <1>4. CASE calls[p].kind = "claim"
    <2>1. calls[p].run # None /\ calls[p].owner # None /\ now # None
      BY <1>1, ConstantsAssumption DEF Owners
    <2> QED
      BY <1>1, <1>2, <1>4, <2>1 DEF NextSnapshot, RowConsistent, Row, OwnerIdentityOk
  <1> QED
    BY <1>1, <1>3, <1>4

LEMMA SwapIInv ==
  ASSUME IInv, NEW p \in Callers, Swap(p)
  PROVE  IInv'
  <1>1. PICK now \in Stamps :
          LET wanted == NextSnapshot(calls[p].current, calls[p], now)
          IN /\ wanted # calls[p].current
             /\ \/ row = calls[p].current /\ row' = wanted /\ End(p, "ok")
                \/ /\ row # calls[p].current
                   /\ calls' = [calls EXCEPT ![p].pc = "lost", ![p].next = wanted,
                                             ![p].attempt = @ + 1]
                   /\ UNCHANGED row
    BY DEF Swap
  <1> DEFINE wanted == NextSnapshot(calls[p].current, calls[p], now)
  <1>2. /\ calls[p] \in Call /\ calls[p].current \in Row /\ row \in Row
        /\ calls[p].kind \in {"claim", "release"}
        /\ calls[p].run \in Runs
        /\ calls[p].owner \in Owners
        /\ calls[p].pc = "read" /\ calls[p].pc \notin Ended
        /\ moved[p] \in 0..Attempts
        /\ calls[p].attempt \in 0..Attempts
        /\ calls[p].attempt < Attempts
        /\ Record(p)
    BY DEF IInv, TypeOK, CallsValid, Swap, Ended, Call, MayTry
  <1>3. wanted \in Row /\ Meets(wanted, calls[p])
    BY <1>2, WantedRow
  <1>4. CASE row = calls[p].current /\ row' = wanted /\ End(p, "ok")
    <2>1. EndedCall("ok") \in Call /\ EndedCall("ok").pc = "ok"
      BY IdleCall DEF Ended
    <2>2. row' \in Row /\ Meets(row', calls[p])
      BY <1>3, <1>4
    <2>3. met'[p]
      BY <1>2, <2>2, History
    <2>4. RowConsistent'
      <3>1. ~Refuses(calls[p].current, calls[p])
        BY DEF Swap
      <3> QED
        BY <1>2, <1>4, <3>1, WantedConsistent DEF RowConsistent
    <2> QED
      BY <1>2, <1>4, <2>1, <2>2, <2>3, <2>4, OwnStep DEF End, Ended
  <1>5. CASE /\ row # calls[p].current
             /\ calls' = [calls EXCEPT ![p].pc = "lost", ![p].next = wanted,
                                       ![p].attempt = @ + 1]
             /\ UNCHANGED row
    <2> DEFINE c == [calls[p] EXCEPT !.pc = "lost", !.next = wanted, !.attempt = @ + 1]
    <2>1. /\ c.pc = "lost" /\ c.next = wanted /\ c.kind = calls[p].kind
          /\ c.run = calls[p].run /\ c.owner = calls[p].owner
          /\ c.attempt = calls[p].attempt + 1
      BY <1>2 DEF Call
    <2>2. c \in Call
      <3>1. calls[p].attempt + 1 \in 0..Attempts
        BY <1>2 DEF Attempts
      <3> HIDE DEF wanted
      <3> QED
        BY <1>2, <1>3, <3>1 DEF Call
    <2>3. Meets(c.next, c)
      <3> HIDE DEF wanted, c
      <3> QED
        BY <1>3, <2>1 DEF Meets
    <2>4. c.attempt <= moved'[p]
      <3>1. calls[p].attempt < moved[p]
        BY <1>2, <1>5 DEF IInv, LossesCounted
      <3>2. moved[p] <= moved'[p] /\ moved'[p] \in 0..Attempts
        BY <1>2, <1>5, History
      <3> HIDE DEF c
      <3> QED
        BY <1>2, <2>1, <3>1, <3>2 DEF Attempts
    <2>5. calls' = [calls EXCEPT ![p] = c]
      BY <1>5 DEF IInv, TypeOK
    <2>6. row' \in Row /\ RowConsistent'
      BY <1>2, <1>5 DEF IInv, RowConsistent
    <2> HIDE DEF c, wanted
    <2> QED
      BY <1>2, <2>1, <2>2, <2>3, <2>4, <2>5, <2>6, OwnStep
  <1> QED
    BY <1>1, <1>4, <1>5

LEMMA BeginIInv ==
  ASSUME IInv, NEW p \in Callers, NEW kind \in {"claim", "release"},
         NEW r \in Runs, NEW o \in Owners, Begin(p, kind, r, o)
  PROVE  IInv'
  <1> DEFINE c == [pc |-> "read", kind |-> kind, run |-> r, owner |-> o,
                   current |-> row, next |-> row, attempt |-> 0]
  <1>1. /\ row \in Row /\ row' = row
        /\ calls' = [calls EXCEPT ![p] = c]
        /\ met' = [met EXCEPT ![p] = Meets(row, calls'[p])]
        /\ moved' = [moved EXCEPT ![p] = 0]
    BY DEF IInv, TypeOK, Begin
  <1>2. c \in Call
    BY <1>1 DEF Call, Attempts
  <1>3. calls'[p] = c /\ \A q \in Callers \ {p} : calls'[q] = calls[q]
    BY <1>1 DEF IInv, TypeOK
  <1>4. /\ met' \in [Callers -> BOOLEAN]
        /\ met'[p] = Meets(row, c)
        /\ \A q \in Callers \ {p} : met'[q] = met[q]
    <2>1. Meets(row, c) \in BOOLEAN
      BY DEF Meets
    <2> QED
      BY <1>1, <1>3, <2>1 DEF IInv, TypeOK
  <1>5. /\ moved' \in [Callers -> 0..Attempts]
        /\ moved'[p] = 0
        /\ \A q \in Callers \ {p} : moved'[q] = moved[q]
    BY <1>1 DEF IInv, TypeOK, Attempts
  <1>6. /\ c.pc = "read" /\ c.attempt = 0 /\ c.current = row
        /\ c.kind = kind /\ c.run = r /\ c.owner = o
    OBVIOUS
  <1>7. TypeOK' /\ RowConsistent'
    BY <1>1, <1>2, <1>4, <1>5 DEF IInv, TypeOK, RowConsistent
  <1> HIDE DEF c
  <1>8. CallsValid'
    BY <1>3, <1>6 DEF IInv, CallsValid, Begin
  <1>9. SeenIsMet'
    BY <1>3, <1>4, <1>6 DEF IInv, SeenIsMet
  <1>10. LossesCounted'
    BY <1>1, <1>3, <1>5, <1>6 DEF IInv, LossesCounted, Attempts
  <1> QED
    BY <1>7, <1>8, <1>9, <1>10 DEF IInv

\* The other writers of the row are bystanders of every call.
LEMMA WriterIInv ==
  ASSUME IInv, UNCHANGED calls, Record(None), row' \in Row, RowConsistent'
  PROVE  IInv'
  <1>1. TypeOK' /\ CallsValid'
    BY History DEF IInv, TypeOK, CallsValid
  <1>2. \A q \in Callers : q # None
    BY ConstantsAssumption
  <1>3. SeenIsMet' /\ LossesCounted'
    BY <1>2, Bystander DEF SeenIsMet, LossesCounted
  <1> QED
    BY <1>1, <1>3 DEF IInv

LEMMA SubmitOutputIInv ==
  ASSUME IInv, NEW r \in Runs, SubmitOutput(r)
  PROVE  IInv'
  <1>1. row' \in Row /\ RowConsistent'
    BY DEF IInv, TypeOK, RowConsistent, SubmitOutput, Row, States
  <1> QED
    BY <1>1, WriterIInv DEF SubmitOutput

LEMMA DecideIInv ==
  ASSUME IInv, NEW to \in {"in_progress", "done", "blocked"}, Decide(to)
  PROVE  IInv'
  <1>1. row' \in Row /\ RowConsistent'
    BY DEF IInv, TypeOK, RowConsistent, Decide, Row, States
  <1> QED
    BY <1>1, WriterIInv DEF Decide

-----------------------------------------------------------------------------
(* The theorems.                                                           *)

LEMMA NextIInv == IInv /\ [Next]_vars => IInv'
  <1> SUFFICES ASSUME IInv, [Next]_vars PROVE IInv'
    OBVIOUS
  <1>1. CASE \E p \in Callers : Step(p)
    BY <1>1, RefuseIInv, AlreadyIInv, SwapIInv, RereadIInv, GiveUpIInv DEF Step
  <1>2. CASE \E p \in Callers, kind \in {"claim", "release"}, r \in Runs, o \in Owners :
               Begin(p, kind, r, o)
    BY <1>2, BeginIInv
  <1>3. CASE \E r \in Runs : SubmitOutput(r)
    BY <1>3, SubmitOutputIInv
  <1>4. CASE \E to \in {"in_progress", "done", "blocked"} : Decide(to)
    BY <1>4, DecideIInv
  <1>5. CASE UNCHANGED vars
    BY <1>5 DEF vars, IInv, TypeOK, RowConsistent, CallsValid, SeenIsMet, LossesCounted,
                Meets
  <1> QED
    BY <1>1, <1>2, <1>3, <1>4, <1>5 DEF Next

THEOREM Invariance == Spec => []IInv
  BY InitIInv, NextIInv, PTL DEF Spec

\* A claim or release that reports success was in effect during the call, for
\* any number of callers racing on the row.
THEOREM SuccessesAreReal == Spec => []SuccessIsReal
  <1>1. IInv => SuccessIsReal
    BY DEF IInv, SeenIsMet, SuccessIsReal
  <1> QED
    BY <1>1, Invariance, PTL

\* A call gives up only if the row changed under it at every attempt.
THEOREM ContentionsAreReal == Spec => []ContentionIsReal
  <1>1. IInv => ContentionIsReal
    BY DEF IInv, LossesCounted, ContentionIsReal
  <1> QED
    BY <1>1, Invariance, PTL

\* Every column and every call keeps a value of its type.
THEOREM TypeCorrect == Spec => []TypeOK
  <1>1. IInv => TypeOK
    BY DEF IInv
  <1> QED
    BY <1>1, Invariance, PTL

\* The swap of a claim keeps the time of the first one.
LEMMA AcquiredStep ==
  ASSUME IInv, IInv', [Next]_vars
  PROVE  [/\ row'.acquired = None <=> row'.owner = None
          /\ row'.acquired = None <=> row'.checkout = None
          /\ row.acquired # None => row'.acquired = row.acquired]_row
  <1>1. /\ row'.acquired = None <=> row'.owner = None
        /\ row'.acquired = None <=> row'.checkout = None
    BY DEF IInv, RowConsistent
  <1>2. row.acquired # None => row' = row \/ row'.acquired = row.acquired
    <2>1. row \in Row
      BY DEF IInv, TypeOK
    <2>2. ASSUME NEW p \in Callers, Swap(p)
          PROVE  row.acquired # None => row' = row \/ row'.acquired = row.acquired
      <3>1. row' = row \/ \E now \in Stamps :
              row = calls[p].current /\ row' = NextSnapshot(row, calls[p], now)
        BY <2>2 DEF Swap
      <3> QED
        BY <2>1, <3>1 DEF NextSnapshot, Row
    <2>3. ASSUME NEW p \in Callers, Refuse(p) \/ Already(p) \/ Reread(p) \/ GiveUp(p)
          PROVE  row' = row
      BY <2>3 DEF Refuse, Already, Reread, GiveUp
    <2>4. ASSUME NEW p \in Callers, NEW kind \in {"claim", "release"}, NEW r \in Runs,
                 NEW o \in Owners, Begin(p, kind, r, o)
          PROVE  row' = row
      BY <2>4 DEF Begin
    <2>5. ASSUME (\E r \in Runs : SubmitOutput(r))
                   \/ \E to \in {"in_progress", "done", "blocked"} : Decide(to)
          PROVE  row'.acquired = row.acquired
      BY <2>1, <2>5 DEF SubmitOutput, Decide, Row
    <2> QED
      BY <2>2, <2>3, <2>4, <2>5 DEF Next, Step, vars
  <1> QED
    BY <1>1, <1>2

\* The recorded time of acquisition is that of the first claim, whatever is
\* retried, released or reviewed later.
THEOREM FirstClaimIsRecorded == Spec => AcquiredOnce
  BY AcquiredStep, Invariance, PTL DEF Spec, AcquiredOnce

-----------------------------------------------------------------------------
(* Refinement: the row under all the calls is one lock.                    *)

LEMMA PhaseFacts ==
  /\ \A state : state \in {"todo", "in_progress"} => PhaseOf(state) = "open"
  /\ PhaseOf("waiting_approval") = "review"
  /\ \A state : state \in {"done", "blocked"} => PhaseOf(state) = "settled"
  BY DEF PhaseOf

LEMMA LockInitStep == Init => Lock!Init
  BY PhaseFacts DEF Init, Unclaimed, Lock!Init

\* A swap that goes through takes the lock or pauses it.
LEMMA SwapTakesOrPauses ==
  ASSUME IInv, NEW p \in Callers, Swap(p)
  PROVE  Lock!Next \/ UNCHANGED Lock!vars
  <1> DEFINE r == calls[p].run
             o == calls[p].owner
  <1>1. /\ row \in Row /\ RowConsistent
        /\ calls[p].kind \in {"claim", "release"}
        /\ <<r, o>> \in Holders /\ r # None
        /\ ~Refuses(calls[p].current, calls[p])
    <2>1. calls[p].pc \notin Ended /\ calls[p].kind \in {"claim", "release"}
      BY DEF IInv, CallsValid, Swap, Ended
    <2>2. r \in Runs /\ o \in Owners /\ OwnerIdentityOk(r, o)
      BY <2>1 DEF IInv, CallsValid
    <2> QED
      BY <2>1, <2>2, ConstantsAssumption DEF IInv, TypeOK, Swap, Holders
  <1>2. row' = row \/ \E now \in Stamps :
          row = calls[p].current /\ row' = NextSnapshot(row, calls[p], now)
    BY DEF Swap
  <1>3. CASE row' = row
    BY <1>3 DEF Lock!vars
  <1>4. ASSUME NEW now \in Stamps, row = calls[p].current,
               row' = NextSnapshot(row, calls[p], now)
        PROVE  Lock!Next \/ UNCHANGED Lock!vars
    <2>1. row.checkout \in {None, r} /\ row.owner \in {None, o}
      BY <1>1, <1>4 DEF Refuses, NoConflict
    <2>2. CASE calls[p].kind = "claim"
      <3>1. /\ row'.state = "in_progress" /\ row'.checkout = r
            /\ row'.owner = o /\ row'.execution = r
        BY <1>4, <2>2 DEF NextSnapshot
      <3>2. row.state \in {"todo", "in_progress"}
        BY <1>1, <1>4, <2>2 DEF Refuses, Claimable
      <3>3. Lock!Acquire(<<r, o>>)
        BY <1>1, <2>1, <3>1, <3>2, PhaseFacts DEF Lock!Acquire, RowConsistent
      <3> QED
        BY <1>1, <3>3 DEF Lock!Next
    <2>3. CASE calls[p].kind = "release"
      <3>1. /\ row'.state = row.state /\ row'.checkout = row.checkout
            /\ row'.owner = row.owner /\ row'.execution = None
        BY <1>1, <1>4, <2>3 DEF NextSnapshot, Row
      <3>2. CASE row.checkout = None
        BY <3>1, <3>2, <1>1 DEF RowConsistent, Lock!vars
      <3>3. CASE row.checkout # None
        <4>1. Lock!Pause(<<r, o>>)
          BY <1>1, <2>1, <3>1, <3>3 DEF Lock!Pause, RowConsistent
        <4> QED
          BY <1>1, <4>1 DEF Lock!Next
      <3> QED
        BY <3>2, <3>3
    <2> QED
      BY <1>1, <2>2, <2>3
  <1> QED
    BY <1>2, <1>3, <1>4

LEMMA SubmitHandsIn ==
  ASSUME IInv, NEW r \in Runs, SubmitOutput(r)
  PROVE  Lock!Next
  <1>1. row \in Row /\ RowConsistent /\ r # None
    BY ConstantsAssumption DEF IInv, TypeOK
  <1>2. /\ row.state = "in_progress" /\ row.checkout = r
        /\ row.owner \in Owners /\ OwnerIdentityOk(r, row.owner)
    BY <1>1 DEF SubmitOutput, RowConsistent, Row, OwnerIdentityOk
  <1>3. /\ row'.state = "waiting_approval" /\ row'.checkout = r
        /\ row'.owner = row.owner /\ row'.execution = None
    BY <1>1, <1>2 DEF SubmitOutput, Row
  <1>4. Lock!HandIn(<<r, row.owner>>)
    BY <1>1, <1>2, <1>3, PhaseFacts DEF Lock!HandIn
  <1>5. <<r, row.owner>> \in Holders
    BY <1>2 DEF Holders
  <1> QED
    BY <1>4, <1>5 DEF Lock!Next

LEMMA DecideReviews ==
  ASSUME IInv, NEW to \in {"in_progress", "done", "blocked"}, Decide(to)
  PROVE  Lock!Next
  <1>1. /\ row.state = "waiting_approval" /\ row'.state \in {"in_progress", "done", "blocked"}
        /\ row'.checkout = row.checkout /\ row'.owner = row.owner
        /\ row'.execution = row.execution
    BY DEF IInv, TypeOK, Decide, Row
  <1>2. Lock!Review
    BY <1>1, PhaseFacts DEF Lock!Review
  <1> QED
    BY <1>2 DEF Lock!Next

LEMMA LockStep ==
  ASSUME IInv, [Next]_vars
  PROVE  Lock!Next \/ UNCHANGED Lock!vars
  <1>1. CASE row' = row
    BY <1>1 DEF Lock!vars
  <1>2. CASE \E p \in Callers : Step(p)
    <2>1. PICK p \in Callers : Step(p)
      BY <1>2
    <2> QED
      BY <1>1, <2>1, SwapTakesOrPauses DEF Step, Refuse, Already, Reread, GiveUp
  <1>3. CASE \E p \in Callers, kind \in {"claim", "release"}, r \in Runs, o \in Owners :
               Begin(p, kind, r, o)
    BY <1>1, <1>3 DEF Begin
  <1>4. CASE \E r \in Runs : SubmitOutput(r)
    BY <1>4, SubmitHandsIn
  <1>5. CASE \E to \in {"in_progress", "done", "blocked"} : Decide(to)
    BY <1>5, DecideReviews
  <1>6. CASE UNCHANGED vars
    BY <1>1, <1>6 DEF vars
  <1> QED
    BY <1>2, <1>3, <1>4, <1>5, <1>6 DEF Next

\* Refinement: any number of callers racing through the compare-and-swap loop
\* implement the lock that TaskLock specifies.
THEOREM ClaimImplementsLock == Spec => ImplementsTaskLock
  BY LockInitStep, LockStep, Invariance, PTL DEF Spec, ImplementsTaskLock, Lock!Spec

=============================================================================
